---- MODULE Spec2Model ----
(***************************************************************************)
(* ActualIntesa: the promise-chain session coordinator (withActual), the   *)
(* transaction reconciliation pipeline (/sync handler and CLI runSync) and *)
(* the tool-use loop of the budget agent (askAgent).                       *)
(*                                                                         *)
(* One task is one handler invocation of the single-threaded event loop;   *)
(* every await of the code is a task position (pc) and every action is the *)
(* synchronous code between two awaits.                                    *)
(***************************************************************************)
EXTENDS Integers, Sequences, FiniteSets, TLC

\* ---------------------------------------------------------------- bounds
NumTasks == 2          \* handler invocations in flight in one process
MaxDay == 1            \* how many times the calendar day changes
MaxPairs == 12         \* question/answer pairs a chat appends between clears
MaxBlocks == 2         \* tool_use blocks in one response of the model
MaxQuestions == 2      \* answered questions of a chat between clears, call by call
MaxPages == 3          \* pages the provider serves for one fetch
MaxRounds == 2         \* responses with tool calls the model gives to one question

\* ------------------------------------------------------ program constants
MAX_TOOL_ROUNDS == 10
MAX_HISTORY == 10
WindowDays == 90

Tasks == 1..NumTasks
Chats == {"c1", "c2"}

\* An optional value (undefined / null / "" in the code) is the empty set,
\* a present value v is {v}.
None == {}
Some(v) == {v}
The(s) == CHOOSE v \in s : TRUE
\* a || b of the code for optional values
OrElseSecond(a, b) == IF b # None THEN b ELSE a
OrElse(a, b) == IF a # None THEN a ELSE b

VARIABLES
  pc,          \* task -> position of the handler
  kind,        \* task -> which handler runs in it
  chat,        \* task -> chat id of the request (ctx.chat.id)
  result,      \* task -> how the awaited call of the handler settled
  mutex,       \* module variable `mutex`: the task whose promise it holds, 0 = Promise.resolve()
  prev,        \* task -> `prev` captured by its withActual call
  released,    \* tasks whose `release` has been called
  callOrder,   \* order of the withActual calls
  admitOrder,  \* order in which the prev.then callbacks ran
  outcome,     \* task -> completion of the try block, pending while finally runs
  inits,       \* task -> number of api.init calls begun by its withActual
  shutdowns,   \* task -> number of api.shutdown calls begun by its withActual
  tornDown,    \* task -> api.shutdown of its block has settled
  fnRuns,      \* task -> number of times fn was invoked by its withActual
  caught,      \* task -> api.shutdown threw and catch (_) {} dropped the error
  today,       \* the calendar day (new Date())
  lastSync,    \* chat -> users.last_sync_date, optional
  envLastSync, \* LAST_SYNC_DATE of the CLI's .env, optional
  ledger,      \* budget -> the entries of the ledger service, in creation order
  userSnap,    \* task -> ctx.user.last_sync_date as loaded by loadUser
  window,      \* task -> <<dateFrom, dateTo>> of its sync
  batch,       \* task -> the fetched transactions, mapped
  dryRun,      \* task -> options.dryRun of runSync
  imports,     \* task -> number of calls of the ledger import made by its sync
  rounds,      \* task -> `rounds` of askAgent
  modelCalls,  \* task -> number of client.messages.create calls of its question
  response,    \* task -> the last response of the model
  answer,      \* task -> the text askAgent returned, optional
  history,     \* chat -> chatHistories entry
  appended,    \* chat -> number of question/answer pairs pushed since its last clear
  toolResults, \* task -> `toolResults` of the round of askAgent in progress
  lastText,    \* task -> the last text the model has produced for its question, optional
  rawTx,       \* the raw transaction handed to mapTransaction, optional
  mappedTx,    \* what mapTransaction returned for it, optional
  mappedAgain, \* what a second mapTransaction call returned for it, optional
  continuationKey, \* `continuationKey` of getTransactions, optional
  allTransactions, \* `allTransactions` of getTransactions
  pagesLog,    \* the page responses getTransactions has received, in order
  requestKeys, \* the continuation_key parameter of each request it has sent
  fetchError,  \* the error getTransactions threw, optional
  importResult, \* what importTransactions resolved with, optional
  report,      \* what the sync told its caller, optional
  returned,    \* what askAgent returned to the text handler, optional
  messages,    \* task -> `messages` of askAgent
  toolUseBlocks, \* task -> the tool_use blocks of its last response
  clearedSince, \* task -> clearHistory ran for its chat since its askAgent call began
  clientOwner, \* the task whose api.init configured the shared ledger client, 0 = closed
  users,       \* chat -> the row of the users table, optional
  wizStep,     \* chat -> ctx.wizard.cursor of the setup wizard, -1 = not in the scene
  wizData,     \* chat -> ctx.wizard.state.data
  isReturning, \* chat -> ctx.wizard.state.isReturning
  validated,   \* task -> the arguments of its validateConnection call, optional
  invites,     \* code -> used_by of the invite_codes row, optional
  entered,     \* task -> the code its useInviteCode call was given, optional
  inviteResult, \* task -> what its useInviteCode call returned, optional
  windowsLog   \* tenant -> the windows of its sync runs so far

coordVars == <<mutex, prev, released, callOrder, admitOrder, outcome, inits,
               shutdowns, tornDown, fnRuns, caught>>
syncVars == <<today, lastSync, envLastSync, ledger, userSnap, window, batch,
              dryRun, imports>>
askVars == <<rounds, modelCalls, response, answer, history>>
extVars == <<appended, toolResults, lastText, rawTx, mappedTx>>
fetchVars == <<continuationKey, allTransactions, pagesLog, requestKeys,
               fetchError>>
pipeVars == <<mappedAgain, fetchVars, importResult, report, returned>>
convVars == <<messages, toolUseBlocks, clearedSince>>
wizVars == <<users, wizStep, wizData, isReturning, validated, invites,
             entered, inviteResult>>
setupVars == <<clientOwner, wizVars>>
vars == <<pc, kind, chat, result, coordVars, syncVars, askVars, extVars,
          pipeVars, convVars, setupVars, windowsLog>>


\* ------------------------------------------------------------ the Mapper
\* Raw provider transactions.  Dates are day numbers, the decimal amount is
\* held in thousandths (12.345 is 12345), names and ids are strings.
Raw(bd, vd, td, amt, ind, cred, debt, remit, descr, tid, eref, st) ==
  [booking_date |-> bd, value_date |-> vd, transaction_date |-> td,
   amount |-> amt, credit_debit_indicator |-> ind,
   creditor |-> cred, debtor |-> debt, remittance_information |-> remit,
   description |-> descr, transaction_id |-> tid, entry_reference |-> eref,
   status |-> st]

AbsIdentity(n) == n
Abs(n) == IF n < 0 THEN -n ELSE n
\* The decimal amounts (in thousandths) the mapper is exercised with.
Amounts == {0 - 12346, 0 - 12345, 0 - 12344, 0 - 2500, 0 - 1235, 0 - 1005,
            0 - 5, 0, 5, 700, 1005, 1235, 2500, 12344, 12345, 12346}

\* parseFloat(amount) * 100 is a double: on which side of the decimal product
\* it lies (1.005 * 100 is 100.49999999999999, 1.235 * 100 is
\* 123.50000000000001), 0 where the product is exact.
Times100Error(milli) ==
  IF milli \in {0 - 12346, 0 - 12344, 0 - 1005, 1235} THEN 1
  ELSE IF milli \in {0 - 1235, 1005, 12344, 12346} THEN 0 - 1
  ELSE 0

\* amount * 100 in hundredths of a cent, displaced by one where the double
\* is inexact.
Times100(milli) == milli * 10 + Times100Error(milli)

\* Math.round of a value given in hundredths: the nearest integer, a half
\* rounded towards plus infinity.
MathRound(x) == (x + 50) \div 100

\* Math.round(parseFloat(amount) * 100) for an amount given in thousandths
RoundCents(milli) == MathRound(Times100(milli))

\* tx.remittance_information.join(" ") as the sequence of its pieces
RECURSIVE Join(_)
Join(lines) ==
  IF Len(lines) = 0 THEN <<>>
  ELSE IF Len(lines) = 1 THEN <<lines[1]>>
  ELSE <<lines[1], " ">> \o Join(Tail(lines))

ImportedIdNone(tx) == None
ImportedIdPrefersReference(tx) == OrElse(tx.entry_reference, tx.transaction_id)
ImportedId(tx) == OrElse(tx.transaction_id, tx.entry_reference)

\* let payee_name = ""; if (CRDT && creditor?.name) ... else if (DBIT &&
\* debtor?.name) ... else if (remittance_information.length > 0) ...
PayeeNameIgnoresIndicator(tx) ==
  IF tx.creditor # None THEN tx.creditor
  ELSE IF tx.debtor # None THEN tx.debtor
  ELSE IF Len(tx.remittance_information) > 0
       THEN Some(tx.remittance_information[1])
  ELSE None
PayeeName(tx) ==
  IF tx.credit_debit_indicator = "CRDT" /\ tx.creditor # None THEN tx.creditor
  ELSE IF tx.credit_debit_indicator = "DBIT" /\ tx.debtor # None THEN tx.debtor
  ELSE IF Len(tx.remittance_information) > 0
       THEN Some(tx.remittance_information[1])
  ELSE None

mapTransaction(tx) ==
  LET date == OrElse(tx.booking_date, OrElse(tx.value_date, tx.transaction_date))
      cents == RoundCents(IF tx.amount = None THEN 0 ELSE The(tx.amount))
      amount == IF tx.credit_debit_indicator = "DBIT" THEN -Abs(cents)
                ELSE IF tx.credit_debit_indicator = "CRDT" THEN Abs(cents)
                ELSE cents
      payee_name == PayeeName(tx)
      notes0 == IF tx.description # None THEN <<The(tx.description)>> ELSE <<>>
      notes == IF Len(tx.remittance_information) > 0
               THEN IF notes0 # <<>>
                    THEN notes0 \o <<" - ">> \o Join(tx.remittance_information)
                    ELSE Join(tx.remittance_information)
               ELSE notes0
  IN [date |-> date, amount |-> amount, payee_name |-> payee_name,
      notes |-> notes, imported_id |-> ImportedId(tx),
      cleared |-> (tx.status = "BOOK")]

\* ------------------------------------------------- the Open Banking feed
\* What the provider holds for the account: one transaction booked today at
\* start, one the day after that carries only an entry reference, and one
\* older than any window.
Feed ==
  << Raw(Some(0), None, None, Some(12345), "DBIT", None, Some("Shop"),
         <<"card", "payment">>, Some("POS"), Some("TX1"), Some("E1"), "BOOK"),
     Raw(None, Some(1), None, Some(-2500), "CRDT", Some("Employer"), None,
         <<>>, None, None, Some("E2"), "PDNG"),
     Raw(Some(0 - 100), None, None, Some(700), "", None, None,
         <<"old">>, None, Some("TX3"), None, "BOOK") >>

\* The day the provider files a transaction under.
ProviderDate(tx) == The(OrElse(tx.booking_date, tx.value_date))

\* The indices of the feed the provider returns for [from, to]; a transaction
\* dated after today does not exist yet.
InWindow(from, to, now) ==
  {i \in DOMAIN Feed : /\ from <= ProviderDate(Feed[i])
                       /\ ProviderDate(Feed[i]) <= to
                       /\ ProviderDate(Feed[i]) <= now}

RECURSIVE SetToSeq(_)
SetToSeq(S) ==
  IF S = {} THEN <<>>
  ELSE LET m == CHOOSE x \in S : \A y \in S : x <= y
       IN <<m>> \o SetToSeq(S \ {m})

\* transactions.map(mapTransaction); src remembers which feed item a mapped
\* record came from.
MapBatch(idx) ==
  LET s == SetToSeq(idx)
  IN [k \in DOMAIN s |-> [tx |-> mapTransaction(Feed[s[k]]), src |-> s[k]]]

\* ----------------------------------------------------- the ledger service
Budgets == Chats \cup {"env"}

\* The ledger's import of one record: a record whose imported_id matches an
\* entry is reconciled with that entry, any other record becomes a new entry.
LedgerImportOne(entries, rec) ==
  IF /\ rec.tx.imported_id # None
     /\ \E i \in DOMAIN entries : entries[i].imported_id = rec.tx.imported_id
  THEN entries
  ELSE Append(entries, [imported_id |-> rec.tx.imported_id,
                        date |-> rec.tx.date, amount |-> rec.tx.amount,
                        src |-> rec.src])

RECURSIVE LedgerImport(_, _)
LedgerImport(entries, recs) ==
  IF Len(recs) = 0 THEN entries
  ELSE LedgerImport(LedgerImportOne(entries, Head(recs)), Tail(recs))

\* --------------------------------------------------- the History Store
addToHistoryUncapped(h, role, content) ==
  Append(h, [role |-> role, content |-> content])
addToHistoryEvictsNewest(h, role, content) ==
  LET pushed == Append(h, [role |-> role, content |-> content])
  IN IF Len(pushed) > MAX_HISTORY * 2 THEN SubSeq(pushed, 1, MAX_HISTORY * 2)
     ELSE pushed
addToHistoryTenMessages(h, role, content) ==
  LET pushed == Append(h, [role |-> role, content |-> content])
      over == Len(pushed) - MAX_HISTORY
  IN IF over > 0 THEN SubSeq(pushed, over + 1, Len(pushed)) ELSE pushed
addToHistory(h, role, content) ==
  LET pushed == Append(h, [role |-> role, content |-> content])
      over == Len(pushed) - MAX_HISTORY * 2
  IN IF over > 0 THEN SubSeq(pushed, over + 1, Len(pushed)) ELSE pushed

\* The response of the model: whether it carries tool_use blocks, whether it
\* carries text, and its stop_reason.
Responses ==
  [toolUse : BOOLEAN, text : BOOLEAN, stop : {"end_turn", "tool_use"}]
NoResponse == [toolUse |-> FALSE, text |-> FALSE, stop |-> "none"]

\* extractText: the joined text blocks of a response of question t, "" when
\* it has none
extractText(t, r) == IF r.text THEN <<"a", t, "text">> ELSE <<"a", t, "">>

\* ------------------------------------------------------------------ Init
\* The state of the call-by-call pipeline before anything ran.
PipeInit ==
  /\ mappedAgain = None
  /\ continuationKey = None
  /\ allTransactions = <<>>
  /\ pagesLog = <<>>
  /\ requestKeys = <<>>
  /\ fetchError = None
  /\ importResult = None
  /\ report = None
  /\ returned = None

\* No question is being asked.
ConvInit ==
  /\ messages = [t \in Tasks |-> <<>>]
  /\ toolUseBlocks = [t \in Tasks |-> <<>>]
  /\ clearedSince = [t \in Tasks |-> FALSE]

\* The values a chat types into the setup wizard, the invite codes the admin
\* has issued.
Texts == {"a", "b"}
Codes == {"K1", "K2"}

\* ctx.wizard.state.data = {}
EmptyData ==
  [actual_server_url |-> None, actual_password |-> None,
   actual_budget_id |-> None, actual_account_id |-> None]

\* No sync has run yet.  The log of windows is kept where `on` is set.
NoWindows == [on |-> FALSE, first |-> None, done |-> {}]

\* The chats of `registered` have a users row, nobody is in the wizard, no
\* invite code is used and the ledger client is closed.
WizardInit(registered) ==
  /\ clientOwner = 0
  /\ users = [c \in Chats |->
       IF c \in registered
       THEN Some([EmptyData EXCEPT
                   !.actual_server_url = Some("a"), !.actual_password = Some("a"),
                   !.actual_budget_id = Some("a"), !.actual_account_id = Some("a")])
       ELSE None]
  /\ wizStep = [c \in Chats |-> 0 - 1]
  /\ wizData = [c \in Chats |-> EmptyData]
  /\ isReturning = [c \in Chats |-> FALSE]
  /\ validated = [t \in Tasks |-> None]
  /\ invites = [k \in Codes |-> None]
  /\ entered = [t \in Tasks |-> None]
  /\ inviteResult = [t \in Tasks |-> None]
SetupInitOf(registered) ==
  /\ WizardInit(registered)
  /\ windowsLog = [b \in Budgets |-> NoWindows]
SetupInit == SetupInitOf(Chats)

CoreInit ==
  /\ pc = [t \in Tasks |-> "idle"]
  /\ kind = [t \in Tasks |-> "none"]
  /\ chat = [t \in Tasks |-> "c1"]
  /\ result = [t \in Tasks |-> "pending"]
  /\ mutex = 0
  /\ prev = [t \in Tasks |-> 0]
  /\ released = {}
  /\ callOrder = <<>>
  /\ admitOrder = <<>>
  /\ outcome = [t \in Tasks |-> "none"]
  /\ inits = [t \in Tasks |-> 0]
  /\ shutdowns = [t \in Tasks |-> 0]
  /\ tornDown = [t \in Tasks |-> FALSE]
  /\ fnRuns = [t \in Tasks |-> 0]
  /\ caught = [t \in Tasks |-> FALSE]
  /\ today = 0
  /\ lastSync = [c \in Chats |-> None]
  /\ envLastSync = None
  /\ ledger = [b \in Budgets |-> <<>>]
  /\ userSnap = [t \in Tasks |-> None]
  /\ window = [t \in Tasks |-> <<0, 0>>]
  /\ batch = [t \in Tasks |-> <<>>]
  /\ dryRun = [t \in Tasks |-> FALSE]
  /\ imports = [t \in Tasks |-> 0]
  /\ rounds = [t \in Tasks |-> 0]
  /\ modelCalls = [t \in Tasks |-> 0]
  /\ response = [t \in Tasks |-> NoResponse]
  /\ answer = [t \in Tasks |-> None]
  /\ history = [c \in Chats |-> <<>>]
  /\ appended = [c \in Chats |-> 0]
  /\ toolResults = [t \in Tasks |-> <<>>]
  /\ lastText = [t \in Tasks |-> None]
  /\ rawTx = None
  /\ mappedTx = None
  /\ PipeInit
  /\ ConvInit
Init == CoreInit /\ SetupInit
\* The chat c1 has not registered yet.
InitSetup == CoreInit /\ SetupInitOf(Chats \ {"c1"})
\* The windows of the syncs are logged.
InitWindows ==
  /\ CoreInit
  /\ WizardInit(Chats)
  /\ windowsLog = [b \in Budgets |-> [NoWindows EXCEPT !.on = TRUE]]

\* ------------------------------------------------------------ withActual
\* Positions between api.init being called and api.shutdown having settled.
InSession == {"init", "download", "query", "tools", "model", "import", "shutdown"}

\* The synchronous part of withActual: prev = mutex; mutex = new Promise.
CallWithActual(t) ==
  /\ prev' = [prev EXCEPT ![t] = mutex]
  /\ mutex' = t
  /\ callOrder' = Append(callOrder, t)
  /\ pc' = [pc EXCEPT ![t] = "queued"]

\* prev.then: prev is Promise.resolve() or a promise whose release was called.
PrevResolvedAlways(t) == TRUE
PrevResolvedPerKey(t) ==
  IF prev[t] = 0 THEN TRUE
  ELSE prev[t] \in released \/ chat[prev[t]] # chat[t]
PrevResolved(t) == prev[t] = 0 \/ prev[t] \in released

\* The prev.then callback up to its first await: existsSync/mkdirSync, then
\* api.init is called.  mkdirSync is outside the try block: when it throws,
\* the callback rejects and neither the finally block nor release() runs.
Admit(t) ==
  /\ pc[t] = "queued"
  /\ PrevResolved(t)
  /\ admitOrder' = Append(admitOrder, t)
  /\ \/ /\ pc' = [pc EXCEPT ![t] = "init"]
        /\ inits' = [inits EXCEPT ![t] = @ + 1]
        /\ UNCHANGED result
     \/ /\ pc' = [pc EXCEPT ![t] = "settled"]
        /\ result' = [result EXCEPT ![t] = "mkdirError"]
        /\ UNCHANGED inits
  /\ UNCHANGED <<kind, chat, mutex, prev, released, callOrder, outcome,
                 shutdowns, tornDown, fnRuns, caught, syncVars, askVars, extVars, pipeVars, convVars, setupVars,
                 windowsLog>>

\* Entering the finally block: the try block completed with `how`, and
\* api.shutdown is called.
EnterFinally(t, how) ==
  /\ outcome' = [outcome EXCEPT ![t] = how]
  /\ shutdowns' = [shutdowns EXCEPT ![t] = @ + 1]
  /\ pc' = [pc EXCEPT ![t] = "shutdown"]

\* await api.init settles; on success api.downloadBudget is called.
InitDoneSkipsDownload(t) ==
  /\ pc[t] = "init"
  /\ \/ /\ kind[t] = "ask"
        /\ pc' = [pc EXCEPT ![t] = "download"]
        /\ clientOwner' = t
        /\ UNCHANGED <<outcome, shutdowns, fnRuns>>
     \/ /\ kind[t] # "ask"
        /\ pc' = [pc EXCEPT ![t] = IF kind[t] = "query" THEN "query"
                                   ELSE "import"]
        /\ clientOwner' = t
        /\ fnRuns' = [fnRuns EXCEPT ![t] = @ + 1]
        /\ UNCHANGED <<outcome, shutdowns>>
     \/ /\ EnterFinally(t, "initError")
        /\ UNCHANGED <<fnRuns, clientOwner>>
  /\ UNCHANGED <<kind, chat, result, mutex, prev, released, callOrder,
                 admitOrder, inits, tornDown, caught, syncVars, askVars,
                 extVars, pipeVars, convVars, wizVars, windowsLog>>
InitDone(t) ==
  /\ pc[t] = "init"
  /\ \/ /\ pc' = [pc EXCEPT ![t] = "download"]
        /\ clientOwner' = t
        /\ UNCHANGED <<outcome, shutdowns>>
     \/ /\ EnterFinally(t, "initError")
        /\ UNCHANGED clientOwner
  /\ UNCHANGED <<kind, chat, result, mutex, prev, released, callOrder,
                 admitOrder, inits, tornDown, fnRuns, caught, syncVars,
                 askVars, extVars, pipeVars, convVars, wizVars, windowsLog>>

\* while (rounds < MAX_TOOL_ROUNDS)
LoopGuardOffByOne(r) == r <= MAX_TOOL_ROUNDS
LoopGuard(r) == r < MAX_TOOL_ROUNDS

\* fn of askAgent returns ans or throws: its locals are gone, the finally
\* block of withActual is entered.
AskFnEnds(t, how, ans) ==
  /\ rounds' = [rounds EXCEPT ![t] = 0]
  /\ modelCalls' = [modelCalls EXCEPT ![t] = 0]
  /\ response' = [response EXCEPT ![t] = NoResponse]
  /\ answer' = [answer EXCEPT ![t] = ans]
  /\ EnterFinally(t, how)

\* The top of the tool-use loop of askAgent with the response r at hand, up
\* to the next await: either a round begins (the executors are awaited) or
\* the loop is left and fn returns extractText(response).
LoopTop(t, r) ==
  IF LoopGuard(rounds[t]) /\ r.toolUse
  THEN /\ rounds' = [rounds EXCEPT ![t] = @ + 1]
       /\ response' = [response EXCEPT ![t] = r]
       /\ pc' = [pc EXCEPT ![t] = "tools"]
       /\ UNCHANGED <<modelCalls, answer, outcome, shutdowns>>
  ELSE AskFnEnds(t, "value", Some(extractText(t, r)))

\* await api.downloadBudget settles; on success fn(api) is called and runs
\* up to its first await.
DownloadDone(t) ==
  /\ pc[t] = "download"
  /\ \/ /\ fnRuns' = [fnRuns EXCEPT ![t] = @ + 1]
        /\ \/ /\ kind[t] = "query"
              /\ pc' = [pc EXCEPT ![t] = "query"]
              /\ UNCHANGED <<rounds, modelCalls, response, answer, outcome,
                             shutdowns>>
           \/ /\ kind[t] \in {"sync", "runSync"}
              /\ pc' = [pc EXCEPT ![t] = "import"]
              /\ UNCHANGED <<rounds, modelCalls, response, answer, outcome,
                             shutdowns>>
           \/ /\ kind[t] = "ask"
              /\ LoopTop(t, response[t])
     \/ /\ EnterFinally(t, "downloadError")
        /\ UNCHANGED <<fnRuns, rounds, modelCalls, response, answer>>
  /\ UNCHANGED <<kind, chat, result, mutex, prev, released, callOrder,
                 admitOrder, inits, tornDown, caught, syncVars, history, extVars, pipeVars, convVars, setupVars,
                 windowsLog>>

\* What the promise of withActual settles with: the completion of the try
\* block; an error of api.shutdown is caught and dropped.
SettleShutdownMasks(how, shutdownOk) == IF shutdownOk THEN how ELSE "shutdownError"
Settle(how, shutdownOk) == how

\* release() of the finally block
Release(t, how) == released \cup {t}

\* await api.shutdown settles (or throws), release() is called and the
\* promise of withActual settles.
ShutdownDone(t) ==
  /\ pc[t] = "shutdown"
  /\ \E ok \in BOOLEAN :
       /\ result' = [result EXCEPT ![t] = Settle(outcome[t], ok)]
       /\ caught' = [caught EXCEPT ![t] = ~ok]
  /\ tornDown' = [tornDown EXCEPT ![t] = TRUE]
  /\ clientOwner' = 0
  /\ released' = Release(t, outcome[t])
  /\ pc' = [pc EXCEPT ![t] = "settled"]
  /\ UNCHANGED <<kind, chat, mutex, prev, callOrder, admitOrder, outcome,
                 inits, shutdowns, fnRuns, syncVars, askVars, extVars,
                 pipeVars, convVars, wizVars, windowsLog>>

\* ----------------------------------------------------- actual.js (import)
\* importTransactions(serverUrl, password, budgetId, accountId, batch): a
\* Session Coordinator block around the ledger's import operation.
importTransactionsUnqueued(t) ==
  /\ prev' = [prev EXCEPT ![t] = 0]
  /\ pc' = [pc EXCEPT ![t] = "queued"]
  /\ UNCHANGED <<mutex, callOrder>>
importTransactions(t) == CallWithActual(t)

BudgetOf(t) == IF kind[t] = "runSync" THEN "env" ELSE chat[t]

\* The ledger's import settles inside the block: it reconciled the batch, or
\* the call failed.
ImportDone(t) ==
  /\ pc[t] = "import"
  /\ imports' = [imports EXCEPT ![t] = @ + 1]
  /\ \/ /\ ledger' = [ledger EXCEPT ![BudgetOf(t)] = LedgerImport(@, batch[t])]
        /\ EnterFinally(t, "value")
     \/ /\ EnterFinally(t, "fnError")
        /\ UNCHANGED ledger
  /\ UNCHANGED <<kind, chat, result, mutex, prev, released, callOrder,
                 admitOrder, inits, tornDown, fnRuns, caught, today, lastSync,
                 envLastSync, userSnap, window, batch, dryRun, askVars, extVars, pipeVars, convVars, setupVars,
                 windowsLog>>

\* Task slots are taken in order: which slot a request lands in is immaterial.
Free(t) == pc[t] = "idle" /\ \A u \in Tasks : u < t => pc[u] # "idle"

\* The chats a request in slot t may come from: which chat is first is
\* immaterial.
ChatsFor(t) == IF t = 1 THEN {"c1"} ELSE Chats

Without(seq, t) == SelectSeq(seq, LAMBDA u : u # t)

\* A bot handler returns: its locals and the bookkeeping of its withActual
\* call are gone; whether its promise was released stays.
Finished(t) ==
  /\ pc' = [pc EXCEPT ![t] = "done"]
  /\ prev' = [prev EXCEPT ![t] = 0]
  /\ callOrder' = Without(callOrder, t)
  /\ admitOrder' = Without(admitOrder, t)
  /\ inits' = [inits EXCEPT ![t] = 0]
  /\ shutdowns' = [shutdowns EXCEPT ![t] = 0]
  /\ fnRuns' = [fnRuns EXCEPT ![t] = 0]
  /\ caught' = [caught EXCEPT ![t] = FALSE]
  /\ kind' = [kind EXCEPT ![t] = "none"]
  /\ chat' = [chat EXCEPT ![t] = "c1"]
  /\ result' = [result EXCEPT ![t] = "pending"]
  /\ outcome' = [outcome EXCEPT ![t] = "none"]
  /\ userSnap' = [userSnap EXCEPT ![t] = None]
  /\ window' = [window EXCEPT ![t] = <<0, 0>>]
  /\ batch' = [batch EXCEPT ![t] = <<>>]
  /\ rounds' = [rounds EXCEPT ![t] = 0]
  /\ modelCalls' = [modelCalls EXCEPT ![t] = 0]
  /\ response' = [response EXCEPT ![t] = NoResponse]
  /\ answer' = [answer EXCEPT ![t] = None]
  /\ imports' = [imports EXCEPT ![t] = 0]

\* ------------------------------------------------------ the sync window
\* dateFrom / dateTo of the /sync handler and of runSync
DateFromNinetyDaysAgo(last, now) == now - WindowDays
DateFromDayAfter(last, now) ==
  IF last # None THEN The(last) + 1 ELSE now - WindowDays
DateFrom(last, now) == IF last # None THEN The(last) ELSE now - WindowDays
SyncWindow(last, now) == <<DateFrom(last, now), now>>

\* The log of the windows of a budget: the `from` of the first window any of
\* its syncs computed, and the windows of the syncs that saved their date.
WindowStarted(b, w) ==
  IF windowsLog[b].on
  THEN [windowsLog EXCEPT ![b].first = IF @ = None THEN Some(w[1]) ELSE @]
  ELSE windowsLog
WindowSynced(b, how, w) ==
  IF windowsLog[b].on /\ how = "value"
  THEN [windowsLog EXCEPT ![b].done = @ \cup {w}]
  ELSE windowsLog

Tick ==
  /\ today < MaxDay
  /\ today' = today + 1
  /\ UNCHANGED <<pc, kind, chat, result, coordVars, lastSync, envLastSync,
                 ledger, userSnap, window, batch, dryRun, imports, askVars, extVars, pipeVars, convVars, setupVars,
                 windowsLog>>

\* ------------------------------------------------- bot: the /sync handler
\* loadUser has read the user row; withTyping awaits sendChatAction.
StartSync(t, c) ==
  /\ Free(t)
  /\ kind' = [kind EXCEPT ![t] = "sync"]
  /\ chat' = [chat EXCEPT ![t] = c]
  /\ userSnap' = [userSnap EXCEPT ![t] = lastSync[c]]
  /\ pc' = [pc EXCEPT ![t] = "typing"]
  /\ UNCHANGED <<result, coordVars, today, lastSync, envLastSync, ledger,
                 window, batch, dryRun, imports, askVars, extVars, pipeVars, convVars, setupVars,
                 windowsLog>>

\* The handler body up to await getTransactions.
SyncBegin(t) ==
  /\ pc[t] = "typing"
  /\ kind[t] = "sync"
  /\ window' = [window EXCEPT ![t] = SyncWindow(userSnap[t], today)]
  /\ pc' = [pc EXCEPT ![t] = "fetch"]
  /\ windowsLog' = WindowStarted(chat[t], SyncWindow(userSnap[t], today))
  /\ UNCHANGED <<kind, chat, result, coordVars, today, lastSync, envLastSync,
                 ledger, userSnap, batch, dryRun, imports, askVars, extVars, pipeVars, convVars, setupVars>>

\* getTransactions settles: on success the batch is mapped and
\* importTransactions is called, on failure the handler replies the error.
SyncFetched(t) ==
  /\ pc[t] = "fetch"
  /\ kind[t] = "sync"
  /\ \/ /\ batch' = [batch EXCEPT ![t] =
                       MapBatch(InWindow(window[t][1], window[t][2], today))]
        /\ importTransactions(t)
        /\ UNCHANGED <<kind, chat, result, outcome, userSnap, window,
                       imports, admitOrder, inits, shutdowns, fnRuns, caught,
                       askVars, extVars, pipeVars, convVars, setupVars,
                 windowsLog>>
     \* the fetch failed: the handler replies friendlyError(error)
     \/ /\ Finished(t)
        /\ UNCHANGED <<mutex, history, extVars, pipeVars, convVars, setupVars,
                 windowsLog>>
  /\ UNCHANGED <<released, tornDown, today, lastSync, envLastSync, ledger,
                 dryRun>>

\* Whether the last-sync date is saved, given how the import settled.
SaveAlways(how) == TRUE
SaveAfter(how) == how = "value"

\* The handler after await importTransactions: updateUser(last_sync_date)
\* and the summary, or the error reply.
SyncFinish(t) ==
  /\ pc[t] = "settled"
  /\ kind[t] = "sync"
  /\ lastSync' = IF SaveAfter(result[t])
                 THEN [lastSync EXCEPT ![chat[t]] = Some(window[t][2])]
                 ELSE lastSync
  /\ Finished(t)
  /\ windowsLog' = WindowSynced(chat[t], result[t], window[t])
  /\ UNCHANGED <<mutex, released, tornDown, today, envLastSync, ledger,
                 dryRun, history, extVars, pipeVars, convVars, setupVars>>

\* --------------------------------------- bot: /balance, /transactions, ...
StartQuery(t, c) ==
  /\ Free(t)
  /\ kind' = [kind EXCEPT ![t] = "query"]
  /\ chat' = [chat EXCEPT ![t] = c]
  /\ CallWithActual(t)
  /\ UNCHANGED <<result, released, admitOrder, outcome, inits, shutdowns,
                 tornDown, fnRuns, caught, syncVars, askVars, extVars, pipeVars, convVars, setupVars,
                 windowsLog>>

\* fn of a query command: its api calls return, or one of them throws.
QueryDone(t) ==
  /\ pc[t] = "query"
  /\ \E how \in {"value", "fnError"} : EnterFinally(t, how)
  /\ UNCHANGED <<kind, chat, result, mutex, prev, released, callOrder,
                 admitOrder, inits, tornDown, fnRuns, caught, syncVars, askVars, extVars, pipeVars, convVars, setupVars,
                 windowsLog>>

\* The command replies with the data or with friendlyError(error).
QueryReply(t) ==
  /\ pc[t] = "settled"
  /\ kind[t] = "query"
  /\ Finished(t)
  /\ UNCHANGED <<mutex, released, tornDown, today, lastSync, envLastSync,
                 ledger, dryRun, history, extVars, pipeVars, convVars, setupVars,
                 windowsLog>>

\* ------------------------------------------------------- bot: askAgent
\* The responses the model can give: tool_use blocks come with stop_reason
\* "tool_use".
ModelResponses == {r \in Responses : r.toolUse <=> (r.stop = "tool_use")}

\* if (response.stop_reason === "end_stop" || !response.content.some(tool_use))
NoToolRequestedNever(r) == FALSE
NoToolRequested(r) == r.stop = "end_stop" \/ ~r.toolUse

\* bot.on("text") -> askAgent up to the first await client.messages.create
StartAsk(t, c) ==
  /\ Free(t)
  /\ kind' = [kind EXCEPT ![t] = "ask"]
  /\ chat' = [chat EXCEPT ![t] = c]
  /\ modelCalls' = [modelCalls EXCEPT ![t] = 1]
  /\ pc' = [pc EXCEPT ![t] = "model0"]
  /\ UNCHANGED <<result, coordVars, syncVars, rounds, response, answer,
                 history, extVars, pipeVars, convVars, setupVars,
                 windowsLog>>

\* The first response (or the failure of the call): without a tool call the
\* question and the text go to the history and the text is returned, with one
\* withActual is called.
FirstResponse(t) ==
  /\ pc[t] = "model0"
  /\ \/ /\ Finished(t)      \* the call failed: askAgent rejects
        /\ UNCHANGED <<mutex, history, extVars, pipeVars, convVars, setupVars,
                 windowsLog>>
     \/ \E r \in ModelResponses :
          IF NoToolRequested(r)
          THEN /\ history' = [history EXCEPT ![chat[t]] =
                    addToHistory(addToHistory(@, "user", <<"q", t>>),
                                 "assistant", extractText(t, r))]
               /\ appended' = [appended EXCEPT ![chat[t]] = @ + 1]
               /\ Finished(t)
               /\ UNCHANGED <<mutex, toolResults, lastText, rawTx, mappedTx, pipeVars, convVars, setupVars,
                 windowsLog>>
          ELSE /\ response' = [response EXCEPT ![t] = r]
               /\ CallWithActual(t)
               /\ UNCHANGED <<kind, chat, result, outcome, userSnap, window,
                              batch, imports, rounds, modelCalls, answer,
                              history, extVars, pipeVars, convVars, setupVars,
                              windowsLog, admitOrder, inits,
                              shutdowns, fnRuns,
                              caught>>
  /\ UNCHANGED <<released, tornDown, today, lastSync, envLastSync, ledger,
                 dryRun>>

\* The executors of the round have settled (their errors are caught per
\* call); the results are pushed and client.messages.create is called.
ToolsDone(t) ==
  /\ pc[t] = "tools"
  /\ modelCalls' = [modelCalls EXCEPT ![t] = @ + 1]
  /\ pc' = [pc EXCEPT ![t] = "model"]
  /\ UNCHANGED <<kind, chat, result, coordVars, syncVars, rounds, response,
                 answer, history, extVars, pipeVars, convVars, setupVars,
                 windowsLog>>

\* The response of a round (or the failure of the call, which fn throws).
ModelResponse(t) ==
  /\ pc[t] = "model"
  /\ \/ AskFnEnds(t, "fnError", None)
     \/ \E r \in ModelResponses :
          IF ~r.toolUse
          THEN AskFnEnds(t, "value", Some(extractText(t, r)))
          ELSE LoopTop(t, r)
  /\ UNCHANGED <<kind, chat, result, mutex, prev, released, callOrder,
                 admitOrder, inits, tornDown, fnRuns, caught, syncVars, history, extVars, pipeVars, convVars, setupVars,
                 windowsLog>>

\* askAgent after await withActual: the history update and the return, or
\* the rejection passed on to the caller.
AskReturnAnswerOnly(t) ==
  /\ pc[t] = "settled"
  /\ kind[t] = "ask"
  /\ history' = IF result[t] = "value"
                THEN [history EXCEPT ![chat[t]] =
                        addToHistory(@, "assistant", The(answer[t]))]
                ELSE history
  /\ appended' = IF result[t] = "value"
                 THEN [appended EXCEPT ![chat[t]] = @ + 1]
                 ELSE appended
  /\ Finished(t)
  /\ UNCHANGED <<toolResults, lastText, rawTx, mappedTx, pipeVars, convVars, setupVars,
                 windowsLog>>
  /\ UNCHANGED <<mutex, released, tornDown, today, lastSync, envLastSync,
                 ledger, dryRun>>
AskReturn(t) ==
  /\ pc[t] = "settled"
  /\ kind[t] = "ask"
  /\ history' = IF result[t] = "value"
                THEN [history EXCEPT ![chat[t]] =
                        addToHistory(addToHistory(@, "user", <<"q", t>>),
                                     "assistant", The(answer[t]))]
                ELSE history
  /\ appended' = IF result[t] = "value"
                 THEN [appended EXCEPT ![chat[t]] = @ + 1]
                 ELSE appended
  /\ Finished(t)
  /\ UNCHANGED <<toolResults, lastText, rawTx, mappedTx, pipeVars, convVars, setupVars,
                 windowsLog>>
  /\ UNCHANGED <<mutex, released, tornDown, today, lastSync, envLastSync,
                 ledger, dryRun>>

\* ------------------------------------------------------- CLI: runSync
\* The CLI process runs one runSync in task 1.
RunSyncStart(dry) ==
  /\ \A t \in Tasks : pc[t] = "idle"
  /\ kind' = [kind EXCEPT ![1] = "runSync"]
  /\ dryRun' = [dryRun EXCEPT ![1] = dry]
  /\ window' = [window EXCEPT ![1] = SyncWindow(envLastSync, today)]
  /\ pc' = [pc EXCEPT ![1] = "fetch"]
  /\ windowsLog' = WindowStarted("env", SyncWindow(envLastSync, today))
  /\ UNCHANGED <<chat, result, coordVars, today, lastSync, envLastSync,
                 ledger, userSnap, batch, imports, askVars, extVars, pipeVars, convVars, setupVars>>

\* if (dryRun) { ...preview...; return; }
DryRunIgnored(dry) == FALSE
DryRunReturns(dry) == dry

\* getTransactions settles: a failure ends the process, a dry run previews
\* the mapped batch and returns, otherwise importTransactions is called.
RunSyncFetched ==
  /\ pc[1] = "fetch"
  /\ kind[1] = "runSync"
  /\ \/ /\ \E e \in {"sessionError", "transportError"} :
             result' = [result EXCEPT ![1] = e]
        /\ pc' = [pc EXCEPT ![1] = "done"]
        /\ UNCHANGED <<batch, mutex, prev, callOrder>>
     \/ /\ batch' = [batch EXCEPT ![1] =
                       MapBatch(InWindow(window[1][1], window[1][2], today))]
        /\ IF DryRunReturns(dryRun[1])
           THEN /\ result' = [result EXCEPT ![1] = "dryRun"]
                /\ pc' = [pc EXCEPT ![1] = "done"]
                /\ UNCHANGED <<mutex, prev, callOrder>>
           ELSE /\ importTransactions(1)
                /\ UNCHANGED result
  /\ UNCHANGED <<kind, chat, released, admitOrder, outcome, inits, shutdowns,
                 tornDown, fnRuns, caught, today, lastSync, envLastSync, ledger,
                 userSnap, window, dryRun, imports, askVars, extVars, pipeVars, convVars, setupVars,
                 windowsLog>>

\* After await importTransactions: the summary and updateEnvValue, or the
\* error thrown to main().
RunSyncFinish ==
  /\ pc[1] = "settled"
  /\ kind[1] = "runSync"
  /\ envLastSync' = IF SaveAfter(result[1]) THEN Some(window[1][2])
                    ELSE envLastSync
  /\ pc' = [pc EXCEPT ![1] = "done"]
  /\ windowsLog' = WindowSynced("env", result[1], window[1])
  /\ UNCHANGED <<kind, chat, result, coordVars, today, lastSync, ledger,
                 userSnap, window, batch, dryRun, imports, askVars, extVars, pipeVars, convVars, setupVars>>

\* The process has exited and the CLI is run again: module state is fresh,
\* the .env file and the ledger service keep theirs.
CliRestart ==
  /\ pc[1] = "done"
  /\ kind[1] = "runSync"
  /\ pc' = [pc EXCEPT ![1] = "idle"]
  /\ kind' = [kind EXCEPT ![1] = "none"]
  /\ result' = [result EXCEPT ![1] = "pending"]
  /\ mutex' = 0
  /\ prev' = [prev EXCEPT ![1] = 0]
  /\ released' = {}
  /\ callOrder' = <<>>
  /\ admitOrder' = <<>>
  /\ outcome' = [outcome EXCEPT ![1] = "none"]
  /\ inits' = [inits EXCEPT ![1] = 0]
  /\ shutdowns' = [shutdowns EXCEPT ![1] = 0]
  /\ tornDown' = [tornDown EXCEPT ![1] = FALSE]
  /\ fnRuns' = [fnRuns EXCEPT ![1] = 0]
  /\ caught' = [caught EXCEPT ![1] = FALSE]
  /\ window' = [window EXCEPT ![1] = <<0, 0>>]
  /\ batch' = [batch EXCEPT ![1] = <<>>]
  /\ dryRun' = [dryRun EXCEPT ![1] = FALSE]
  /\ imports' = [imports EXCEPT ![1] = 0]
  /\ UNCHANGED <<chat, today, lastSync, envLastSync, ledger, userSnap,
                 askVars, extVars, pipeVars, convVars, setupVars,
                 windowsLog>>

\* ------------------------------------------- askAgent, one await at a time
\* The tool catalog (tools.js) and the methods of the ledger client each
\* executor calls.
ToolNames ==
  {"get_accounts", "get_transactions", "get_budget_month",
   "get_budget_summary", "get_categories", "get_payees", "get_schedules",
   "get_balance_history", "get_rules"}

ApiCallsWithWrite(name) == {"getAccounts", "addTransactions"}
ApiCallsOf(name) ==
  CASE name = "get_accounts" -> {"getAccounts", "getAccountBalance"}
    [] name = "get_transactions" ->
         {"getAccounts", "getTransactions", "getPayees", "getCategories"}
    [] name = "get_budget_month" -> {"getBudgetMonth"}
    [] name = "get_budget_summary" -> {"getBudgetMonth"}
    [] name = "get_categories" -> {"getCategoryGroups", "getCategories"}
    [] name = "get_payees" -> {"getPayees"}
    [] name = "get_schedules" -> {"getSchedules", "getPayees", "getAccounts"}
    [] name = "get_balance_history" -> {"getAccounts", "getAccountBalance"}
    [] name = "get_rules" ->
         {"getRules", "getPayees", "getCategories", "getAccounts"}

\* The query methods of the ledger client; any other method writes.
ApiReaders ==
  {"getAccounts", "getAccountBalance", "getTransactions", "getPayees",
   "getCategories", "getCategoryGroups", "getBudgetMonth", "getSchedules",
   "getRules"}

ApplyApi(method, entries) ==
  IF method \in ApiReaders THEN entries
  ELSE Append(entries, [imported_id |-> None, date |-> None, amount |-> 0,
                        src |-> 0])

RECURSIVE ApplyApiCalls(_, _)
ApplyApiCalls(methods, entries) ==
  IF methods = {} THEN entries
  ELSE LET m == CHOOSE x \in methods : TRUE
       IN ApplyApiCalls(methods \ {m}, ApplyApi(m, entries))

\* The result of one tool_use block: toolExecutors.get(name) is undefined,
\* the executor throws inside try/catch, or it returns.
BlockResultUncaught(known, throws) ==
  IF ~known THEN "error: Unknown tool"
  ELSE IF throws THEN "thrown" ELSE "value"
BlockResult(known, throws) ==
  IF ~known THEN "error: Unknown tool"
  ELSE IF throws THEN "error: message" ELSE "value"

\* What a response adds to the text produced for the question so far.
TextAfter(t, r, before) == IF r.text THEN Some(extractText(t, r)) ELSE before

\* The first response: as FirstResponse, keeping the text of the response.
AskFirstResponseWithoutSession(t) ==
  /\ pc[t] = "model0"
  /\ pc' = [pc EXCEPT ![t] = "tools"]
  /\ rounds' = [rounds EXCEPT ![t] = 1]
  /\ UNCHANGED <<kind, chat, result, coordVars, syncVars, modelCalls,
                 response, answer, history, extVars, pipeVars, convVars, setupVars,
                 windowsLog>>
AskFirstResponse(t) ==
  /\ pc[t] = "model0"
  /\ \/ /\ Finished(t)      \* the call failed: askAgent rejects
        /\ UNCHANGED <<mutex, history, appended, lastText, returned>>
     \/ \E r \in ModelResponses :
          IF NoToolRequested(r)
          THEN /\ history' = [history EXCEPT ![chat[t]] =
                    addToHistory(addToHistory(@, "user", <<"q", t>>),
                                 "assistant", extractText(t, r))]
               /\ appended' = [appended EXCEPT ![chat[t]] = @ + 1]
               /\ lastText' = [lastText EXCEPT ![t] = TextAfter(t, r, None)]
               /\ returned' = Some(extractText(t, r))
               /\ Finished(t)
               /\ UNCHANGED mutex
          ELSE /\ response' = [response EXCEPT ![t] = r]
               /\ lastText' = [lastText EXCEPT ![t] = TextAfter(t, r, None)]
               /\ CallWithActual(t)
               /\ UNCHANGED <<kind, chat, result, outcome, userSnap, window,
                              batch, imports, rounds, modelCalls, answer,
                              history, appended, admitOrder, inits, shutdowns,
                              fnRuns, caught, returned>>
  /\ UNCHANGED <<released, tornDown, today, lastSync, envLastSync, ledger,
                 dryRun, toolResults, rawTx, mappedTx, mappedAgain, fetchVars,
                 importResult, report, convVars, setupVars,
                 windowsLog>>

\* One tool_use block of the response is executed: the next entry of
\* toolResults is its value or its error payload.
ExecuteBlock(t) ==
  /\ pc[t] = "tools"
  /\ Len(toolResults[t]) < MaxBlocks
  /\ \E name \in ToolNames \cup {"no_such_tool"} : \E throws \in BOOLEAN :
       LET known == name \in ToolNames
           content == BlockResult(known, throws)
           call == IF ~known THEN "unknown"
                   ELSE IF throws THEN "throws" ELSE "ok"
       IN /\ ledger' = IF known
                       THEN [ledger EXCEPT ![BudgetOf(t)] =
                               ApplyApiCalls(ApiCallsOf(name), @)]
                       ELSE ledger
          /\ IF content = "thrown"
             THEN /\ AskFnEnds(t, "fnError", None)
                  /\ toolResults' = [toolResults EXCEPT ![t] = <<>>]
             ELSE /\ toolResults' = [toolResults EXCEPT ![t] =
                        Append(@, [call |-> call, content |-> content])]
                  /\ UNCHANGED <<pc, rounds, modelCalls, response, answer,
                                 outcome, shutdowns>>
  /\ UNCHANGED <<kind, chat, result, mutex, prev, released, callOrder,
                 admitOrder, inits, tornDown, fnRuns, caught, today, lastSync,
                 envLastSync, userSnap, window, batch, dryRun, imports,
                 history, appended, lastText, rawTx, mappedTx, pipeVars, convVars, setupVars,
                 windowsLog>>

\* Every block of the round has its result: messages.push(toolResults) and
\* the next client.messages.create.
RoundCallsModel(t) ==
  /\ pc[t] = "tools"
  /\ Len(toolResults[t]) > 0
  /\ modelCalls' = [modelCalls EXCEPT ![t] = @ + 1]
  /\ pc' = [pc EXCEPT ![t] = "model"]
  /\ UNCHANGED <<kind, chat, result, coordVars, syncVars, rounds, response,
                 answer, history, extVars, pipeVars, convVars, setupVars,
                 windowsLog>>

\* The response of a round: as ModelResponse, keeping the text produced.
AskRoundResponse(t) ==
  /\ pc[t] = "model"
  /\ \/ /\ AskFnEnds(t, "fnError", None)
        /\ UNCHANGED lastText
     \/ \E r \in ModelResponses :
          /\ lastText' = [lastText EXCEPT ![t] = TextAfter(t, r, @)]
          /\ IF ~r.toolUse
             THEN AskFnEnds(t, "value", Some(extractText(t, r)))
             ELSE LoopTop(t, r)
  /\ toolResults' = [toolResults EXCEPT ![t] = <<>>]
  /\ UNCHANGED <<kind, chat, result, mutex, prev, released, callOrder,
                 admitOrder, inits, tornDown, fnRuns, caught, syncVars,
                 history, appended, rawTx, mappedTx, pipeVars, convVars, setupVars,
                 windowsLog>>

\* Whether the question and the answer go to the history, given how
\* await withActual settled.
HistoryUpdatedNever(how) == FALSE
HistoryUpdated(how) == how = "value"

\* askAgent after await withActual, as AskReturn.
AskFinish(t) ==
  /\ pc[t] = "settled"
  /\ kind[t] = "ask"
  /\ history' = IF HistoryUpdated(result[t])
                THEN [history EXCEPT ![chat[t]] =
                        addToHistory(addToHistory(@, "user", <<"q", t>>),
                                     "assistant", The(answer[t]))]
                ELSE history
  /\ appended' = IF HistoryUpdated(result[t])
                 THEN [appended EXCEPT ![chat[t]] = @ + 1]
                 ELSE appended
  /\ toolResults' = [toolResults EXCEPT ![t] = <<>>]
  /\ lastText' = [lastText EXCEPT ![t] = None]
  /\ returned' = IF result[t] = "value" THEN answer[t] ELSE None
  /\ Finished(t)
  /\ UNCHANGED <<mutex, released, tornDown, today, lastSync, envLastSync,
                 ledger, dryRun, rawTx, mappedTx, mappedAgain, fetchVars,
                 importResult, report, convVars, setupVars,
                 windowsLog>>

\* The handler has returned and the next message arrives.  A promise that
\* was released behaves as Promise.resolve() from then on.
NextUpdate(t) ==
  /\ pc[t] = "done"
  /\ pc' = [pc EXCEPT ![t] = "idle"]
  /\ IF mutex = t /\ t \in released
     THEN /\ mutex' = 0
          /\ released' = released \ {t}
          /\ tornDown' = [tornDown EXCEPT ![t] = FALSE]
     ELSE UNCHANGED <<mutex, released, tornDown>>
  /\ lastText' = [lastText EXCEPT ![t] = None]
  /\ returned' = None
  /\ clearedSince' = [clearedSince EXCEPT ![t] = FALSE]
  /\ UNCHANGED <<kind, chat, result, prev, callOrder, admitOrder, outcome,
                 inits, shutdowns, fnRuns, caught, syncVars, askVars, appended,
                 toolResults, rawTx, mappedTx, mappedAgain, fetchVars,
                 importResult, report, messages, toolUseBlocks,
                 setupVars, windowsLog>>

\* ------------------------------------- askAgent and its message list
\* The tools a response asks for: two of the catalog and one that is not in it.
RoundTools == {"get_accounts", "get_payees", "no_such_tool"}

\* The tool_use blocks the k-th response of a question may carry, each with
\* the id the model gave it.
ToolUseBlocks(k) ==
  UNION {{[i \in 1..n |-> [id |-> <<"toolu", k, i>>, name |-> f[i]]] :
            f \in [1..n -> RoundTools]} : n \in 1..MaxBlocks}

\* response.content: its text blocks and its tool_use blocks
Content(r, blocks) == [text |-> r.text, tool_use |-> blocks]

\* toolResults.push({type: "tool_result", tool_use_id: block.id, content})
ToolResultBlockFirstId(block, content) ==
  [type |-> "tool_result", tool_use_id |-> <<"toolu", block.id[2], 1>>,
   content |-> content]
ToolResultBlock(block, content) ==
  [type |-> "tool_result", tool_use_id |-> block.id, content |-> content]

\* askAgent up to its first await: messages = [...history, question] and
\* client.messages.create is called.
AskAgentCalled(t, c) ==
  /\ Free(t)
  /\ kind' = [kind EXCEPT ![t] = "ask"]
  /\ chat' = [chat EXCEPT ![t] = c]
  /\ messages' = [messages EXCEPT ![t] =
       Append(history[c], [role |-> "user", content |-> <<"q", t>>])]
  /\ clearedSince' = [clearedSince EXCEPT ![t] = FALSE]
  /\ modelCalls' = [modelCalls EXCEPT ![t] = 1]
  /\ pc' = [pc EXCEPT ![t] = "model0"]
  /\ UNCHANGED <<result, coordVars, syncVars, rounds, response, answer,
                 history, extVars, pipeVars, toolUseBlocks,
                 setupVars, windowsLog>>

\* The top of the while loop with the tool_use blocks of `response` at
\* hand: rounds++, the assistant turn is pushed and the first executor is
\* awaited; or the loop is left and fn returns extractText(response).
RoundTop(t, r, blocks) ==
  IF LoopGuard(rounds[t]) /\ blocks # <<>>
  THEN /\ rounds' = [rounds EXCEPT ![t] = @ + 1]
       /\ response' = [response EXCEPT ![t] = r]
       /\ toolUseBlocks' = [toolUseBlocks EXCEPT ![t] = blocks]
       /\ messages' = [messages EXCEPT ![t] =
            Append(@, [role |-> "assistant", content |-> Content(r, blocks)])]
       /\ toolResults' = [toolResults EXCEPT ![t] = <<>>]
       /\ pc' = [pc EXCEPT ![t] = "tools"]
       /\ UNCHANGED <<modelCalls, answer, outcome, shutdowns>>
  ELSE /\ AskFnEnds(t, "value", Some(extractText(t, r)))
       /\ toolUseBlocks' = [toolUseBlocks EXCEPT ![t] = <<>>]
       /\ toolResults' = [toolResults EXCEPT ![t] = <<>>]
       /\ UNCHANGED messages

\* The first response (or the failure of the call): the early return, or
\* the call of withActual.
FirstResponseArrives(t) ==
  /\ pc[t] = "model0"
  /\ \/ /\ Finished(t)
        /\ messages' = [messages EXCEPT ![t] = <<>>]
        /\ UNCHANGED <<mutex, history, appended, returned, toolUseBlocks>>
     \/ \E r \in ModelResponses :
          IF NoToolRequested(r)
          THEN /\ history' = [history EXCEPT ![chat[t]] =
                    addToHistory(addToHistory(@, "user", <<"q", t>>),
                                 "assistant", extractText(t, r))]
               /\ appended' = [appended EXCEPT ![chat[t]] = @ + 1]
               /\ returned' = Some(extractText(t, r))
               /\ messages' = [messages EXCEPT ![t] = <<>>]
               /\ Finished(t)
               /\ UNCHANGED <<mutex, toolUseBlocks>>
          ELSE \E blocks \in ToolUseBlocks(1) :
               /\ response' = [response EXCEPT ![t] = r]
               /\ toolUseBlocks' = [toolUseBlocks EXCEPT ![t] = blocks]
               /\ CallWithActual(t)
               /\ UNCHANGED <<kind, chat, result, outcome, userSnap, window,
                              batch, imports, rounds, modelCalls, answer,
                              history, appended, admitOrder, inits, shutdowns,
                              fnRuns, caught, returned, messages>>
  /\ UNCHANGED <<released, tornDown, today, lastSync, envLastSync, ledger,
                 dryRun, toolResults, lastText, rawTx, mappedTx, mappedAgain,
                 fetchVars, importResult, report, clearedSince,
                 setupVars, windowsLog>>

\* await api.downloadBudget settles; on success fn(api) is called and runs
\* to its first await.
FnCalled(t) ==
  /\ pc[t] = "download"
  /\ kind[t] = "ask"
  /\ \/ /\ fnRuns' = [fnRuns EXCEPT ![t] = @ + 1]
        /\ RoundTop(t, response[t], toolUseBlocks[t])
     \/ /\ EnterFinally(t, "downloadError")
        /\ UNCHANGED <<fnRuns, rounds, modelCalls, response, answer,
                       toolResults, messages, toolUseBlocks>>
  /\ UNCHANGED <<kind, chat, result, mutex, prev, released, callOrder,
                 admitOrder, inits, tornDown, caught, syncVars, history,
                 appended, lastText, rawTx, mappedTx, pipeVars, clearedSince,
                 setupVars, windowsLog>>

\* The executor of the next tool_use block settles (or there is none for
\* its name): its result block is pushed to toolResults.
ExecutorSettles(t) ==
  /\ pc[t] = "tools"
  /\ Len(toolResults[t]) < Len(toolUseBlocks[t])
  /\ LET block == toolUseBlocks[t][Len(toolResults[t]) + 1]
         known == block.name \in ToolNames
     IN \E throws \in (IF known THEN BOOLEAN ELSE {FALSE}) :
          toolResults' = [toolResults EXCEPT ![t] =
            Append(@, ToolResultBlock(block, BlockResult(known, throws)))]
  /\ UNCHANGED <<pc, kind, chat, result, coordVars, syncVars, askVars,
                 appended, lastText, rawTx, mappedTx, pipeVars, convVars, setupVars,
                 windowsLog>>

\* After the last block: messages.push({role: "user", content: toolResults})
\* and the next client.messages.create is called.
ResultsPushed(t) ==
  /\ pc[t] = "tools"
  /\ Len(toolResults[t]) = Len(toolUseBlocks[t])
  /\ messages' = [messages EXCEPT ![t] =
       Append(@, [role |-> "user", content |-> toolResults[t]])]
  /\ modelCalls' = [modelCalls EXCEPT ![t] = @ + 1]
  /\ pc' = [pc EXCEPT ![t] = "model"]
  /\ UNCHANGED <<kind, chat, result, coordVars, syncVars, rounds, response,
                 answer, history, extVars, pipeVars, toolUseBlocks,
                 clearedSince,
                 setupVars, windowsLog>>

\* The response of a round (or the failure of the call, which fn throws);
\* the model asks for tools in at most MaxRounds responses.
RoundResponseArrives(t) ==
  /\ pc[t] = "model"
  /\ \/ /\ AskFnEnds(t, "fnError", None)
        /\ toolUseBlocks' = [toolUseBlocks EXCEPT ![t] = <<>>]
        /\ toolResults' = [toolResults EXCEPT ![t] = <<>>]
        /\ UNCHANGED messages
     \/ \E r \in ModelResponses :
          /\ r.toolUse => modelCalls[t] <= MaxRounds
          /\ \E blocks \in (IF r.toolUse THEN ToolUseBlocks(modelCalls[t])
                             ELSE {<<>>}) :
               IF ~r.toolUse
               THEN /\ AskFnEnds(t, "value", Some(extractText(t, r)))
                    /\ toolUseBlocks' = [toolUseBlocks EXCEPT ![t] = <<>>]
                    /\ toolResults' = [toolResults EXCEPT ![t] = <<>>]
                    /\ UNCHANGED messages
               ELSE RoundTop(t, r, blocks)
  /\ UNCHANGED <<kind, chat, result, mutex, prev, released, callOrder,
                 admitOrder, inits, tornDown, fnRuns, caught, syncVars,
                 history, appended, lastText, rawTx, mappedTx, pipeVars,
                 clearedSince,
                 setupVars, windowsLog>>

\* askAgent after await withActual: the history update and the return, or
\* the rejection passed on; `messages` is gone.
AskAgentReturns(t) ==
  /\ pc[t] = "settled"
  /\ kind[t] = "ask"
  /\ history' = IF HistoryUpdated(result[t])
                THEN [history EXCEPT ![chat[t]] =
                        addToHistory(addToHistory(@, "user", <<"q", t>>),
                                     "assistant", The(answer[t]))]
                ELSE history
  /\ appended' = IF HistoryUpdated(result[t])
                 THEN [appended EXCEPT ![chat[t]] = @ + 1]
                 ELSE appended
  /\ returned' = IF result[t] = "value" THEN answer[t] ELSE None
  /\ messages' = [messages EXCEPT ![t] = <<>>]
  /\ toolUseBlocks' = [toolUseBlocks EXCEPT ![t] = <<>>]
  /\ Finished(t)
  /\ UNCHANGED <<mutex, released, tornDown, today, lastSync, envLastSync,
                 ledger, dryRun, toolResults, lastText, rawTx, mappedTx,
                 mappedAgain, fetchVars, importResult, report, clearedSince,
                 setupVars, windowsLog>>

\* ---------------------------------------------------- the setup wizard
\* The chat has no handler of the wizard in flight.
WizardIdle(c) ==
  \A u \in Tasks : (kind[u] = "wizard" /\ pc[u] \notin {"idle", "done"}) => chat[u] # c

\* A step handler has called ctx.reply; the position says what follows the
\* await: the cursor it selects (ctx.wizard.next / selectStep), nothing
\* ("reply_stay"), ctx.scene.leave ("reply_leave"), or the rest of the catch
\* block of step 5 ("reply_failed").
ReplyThenStep ==
  <<"reply_1", "reply_2", "reply_3", "reply_4", "reply_5", "reply_6">>
ReplyPositions ==
  {ReplyThenStep[k] : k \in 1..6} \cup {"reply_stay", "reply_leave", "reply_failed"}
AwaitReply(t, position) == pc' = [pc EXCEPT ![t] = position]
StepAfter(position) == CHOOSE k \in 1..6 : ReplyThenStep[k] = position

\* useInviteCode(code, chatId) of db.js: the row exists and has no used_by
InviteCodeFree(code) == code \in Codes /\ invites[code] = None

\* bot.command("setup"): ctx.scene.enter("setup-wizard") runs step 0 up to
\* its await ctx.reply.
SetupCommand(t, c) ==
  /\ Free(t)
  /\ WizardIdle(c)
  /\ wizStep[c] = 0 - 1
  /\ kind' = [kind EXCEPT ![t] = "wizard"]
  /\ chat' = [chat EXCEPT ![t] = c]
  /\ wizStep' = [wizStep EXCEPT ![c] = 0]
  /\ wizData' = [wizData EXCEPT ![c] = EmptyData]
  /\ isReturning' = [isReturning EXCEPT ![c] = users[c] # None]
  /\ AwaitReply(t, IF users[c] # None THEN "reply_2" ELSE "reply_1")
  /\ UNCHANGED <<result, coordVars, syncVars, askVars, extVars, pipeVars,
                 convVars, clientOwner, users, validated, invites, entered,
                 inviteResult, windowsLog>>

\* A message without text at one of the steps 1 to 5: "Please enter ...".
EmptyText(t, c) ==
  /\ Free(t)
  /\ WizardIdle(c)
  /\ wizStep[c] \in 1..5
  /\ kind' = [kind EXCEPT ![t] = "wizard"]
  /\ chat' = [chat EXCEPT ![t] = c]
  /\ AwaitReply(t, "reply_stay")
  /\ UNCHANGED <<result, coordVars, syncVars, askVars, extVars, pipeVars,
                 convVars, setupVars, windowsLog>>

\* Step 1: the invite code is consumed, or refused.
InviteStep(t, c, code) ==
  /\ Free(t)
  /\ WizardIdle(c)
  /\ wizStep[c] = 1
  /\ kind' = [kind EXCEPT ![t] = "wizard"]
  /\ chat' = [chat EXCEPT ![t] = c]
  /\ entered' = [entered EXCEPT ![t] = Some(code)]
  /\ IF InviteCodeFree(code)
     THEN /\ invites' = [invites EXCEPT ![code] = Some(c)]
          /\ inviteResult' = [inviteResult EXCEPT ![t] = Some(TRUE)]
          /\ wizData' = [wizData EXCEPT ![c] = EmptyData]
          /\ AwaitReply(t, "reply_2")
     ELSE /\ inviteResult' = [inviteResult EXCEPT ![t] = Some(FALSE)]
          /\ AwaitReply(t, "reply_stay")
          /\ UNCHANGED <<invites, wizData>>
  /\ UNCHANGED <<result, coordVars, syncVars, askVars, extVars, pipeVars,
                 convVars, clientOwner, users, wizStep, isReturning,
                 validated, windowsLog>>

\* Steps 2, 3 and 4: the text is stored in a field of
\* ctx.wizard.state.data, and after the reply the cursor moves on.
StoreStep(t, c, data) ==
  /\ Free(t)
  /\ WizardIdle(c)
  /\ kind' = [kind EXCEPT ![t] = "wizard"]
  /\ chat' = [chat EXCEPT ![t] = c]
  /\ wizData' = [wizData EXCEPT ![c] = data]
  /\ AwaitReply(t, ReplyThenStep[wizStep[c] + 1])
  /\ UNCHANGED <<result, coordVars, syncVars, askVars, extVars, pipeVars,
                 convVars, clientOwner, users, wizStep, isReturning,
                 validated, invites, entered, inviteResult, windowsLog>>

UrlStep(t, c, text) ==
  /\ wizStep[c] = 2
  /\ StoreStep(t, c, [wizData[c] EXCEPT !.actual_server_url = Some(text)])
PasswordStep(t, c, text) ==
  /\ wizStep[c] = 3
  /\ StoreStep(t, c, [wizData[c] EXCEPT !.actual_password = Some(text)])
BudgetStep(t, c, text) ==
  /\ wizStep[c] = 4
  /\ StoreStep(t, c, [wizData[c] EXCEPT !.actual_budget_id = Some(text)])

\* Step 5 up to await ctx.reply("Validating Actual Budget connection...").
AccountStep(t, c, text) ==
  /\ Free(t)
  /\ WizardIdle(c)
  /\ wizStep[c] = 5
  /\ kind' = [kind EXCEPT ![t] = "wizard"]
  /\ chat' = [chat EXCEPT ![t] = c]
  /\ wizData' = [wizData EXCEPT ![c] =
       [@ EXCEPT !.actual_account_id = Some(text)]]
  /\ pc' = [pc EXCEPT ![t] = "validating"]
  /\ UNCHANGED <<result, coordVars, syncVars, askVars, extVars, pipeVars,
                 convVars, clientOwner, users, wizStep, isReturning,
                 validated, invites, entered, inviteResult, windowsLog>>

\* That reply settles: validateConnection is called with the values of
\* ctx.wizard.state.data and calls api.init; or the handler rejects.
ValidateCalled(t) ==
  /\ pc[t] = "validating"
  /\ \/ /\ validated' = [validated EXCEPT ![t] = Some(wizData[chat[t]])]
        /\ inits' = [inits EXCEPT ![t] = @ + 1]
        /\ pc' = [pc EXCEPT ![t] = "vinit"]
        /\ UNCHANGED <<kind, chat, result, mutex, prev, released, callOrder,
                       admitOrder, outcome, shutdowns, tornDown, fnRuns,
                       caught, userSnap, window, batch, imports, askVars>>
     \/ /\ Finished(t)
        /\ UNCHANGED <<mutex, released, tornDown, history, validated>>
  /\ UNCHANGED <<today, lastSync, envLastSync, ledger, dryRun, extVars,
                 pipeVars, convVars, clientOwner, users, wizStep, wizData,
                 isReturning, invites, entered, inviteResult, windowsLog>>

\* validateConnection rejects: the catch block of step 5 awaits ctx.reply.
ValidateRejects(t, how) ==
  /\ outcome' = [outcome EXCEPT ![t] = how]
  /\ result' = [result EXCEPT ![t] = "vError"]
  /\ AwaitReply(t, "reply_failed")

\* validateConnection calls api.shutdown on its way out with `how`.
ValidateShutsDown(t, how) ==
  /\ outcome' = [outcome EXCEPT ![t] = how]
  /\ shutdowns' = [shutdowns EXCEPT ![t] = @ + 1]
  /\ pc' = [pc EXCEPT ![t] = "vshutdown"]

\* await api.init of validateConnection settles.
ValidateInitDone(t) ==
  /\ pc[t] = "vinit"
  /\ \/ /\ clientOwner' = t
        /\ pc' = [pc EXCEPT ![t] = "vdownload"]
        /\ UNCHANGED <<outcome, result>>
     \/ /\ ValidateRejects(t, "initError")
        /\ UNCHANGED clientOwner
  /\ UNCHANGED <<kind, chat, mutex, prev, released, callOrder, admitOrder,
                 inits, shutdowns, tornDown, fnRuns, caught, syncVars, askVars,
                 extVars, pipeVars, convVars, users, wizStep, wizData,
                 isReturning, validated, invites, entered, inviteResult,
                 windowsLog>>

\* await api.downloadBudget of validateConnection settles: getAccounts is
\* called, or the inner catch block calls api.shutdown.
ValidateDownloadDone(t) ==
  /\ pc[t] = "vdownload"
  /\ \/ /\ pc' = [pc EXCEPT ![t] = "vaccounts"]
        /\ UNCHANGED <<outcome, shutdowns>>
     \/ ValidateShutsDown(t, "downloadError")
  /\ UNCHANGED <<kind, chat, result, mutex, prev, released, callOrder,
                 admitOrder, inits, tornDown, fnRuns, caught, syncVars, askVars,
                 extVars, pipeVars, convVars, setupVars, windowsLog>>

\* await api.getAccounts settles: it throws, which the outer catch block
\* wraps and rethrows; or it returns no accounts, accounts without the
\* entered id, or accounts with it, and api.shutdown is called.
ValidateAccountsDone(t) ==
  /\ pc[t] = "vaccounts"
  /\ \/ /\ ValidateRejects(t, "accountsError")
        /\ UNCHANGED shutdowns
     \/ /\ \E how \in {"noAccounts", "accountMissing", "value"} :
             ValidateShutsDown(t, how)
        /\ UNCHANGED result
  /\ UNCHANGED <<kind, chat, mutex, prev, released, callOrder, admitOrder,
                 inits, tornDown, fnRuns, caught, syncVars, askVars, extVars,
                 pipeVars, convVars, setupVars, windowsLog>>

\* await api.shutdown of validateConnection settles.  After the last one
\* validateConnection returns true, step 5 calls saveUser with
\* ctx.wizard.state.data and awaits ctx.reply; otherwise it rejects.
ValidateShutdownDone(t) ==
  /\ pc[t] = "vshutdown"
  /\ clientOwner' = 0
  /\ \E ok \in BOOLEAN :
       IF ok /\ outcome[t] = "value"
       THEN /\ result' = [result EXCEPT ![t] = "value"]
            /\ users' = [users EXCEPT ![chat[t]] = Some(wizData[chat[t]])]
            /\ AwaitReply(t, "reply_6")
       ELSE /\ result' = [result EXCEPT ![t] = "vError"]
            /\ AwaitReply(t, "reply_failed")
            /\ UNCHANGED users
  /\ UNCHANGED <<kind, chat, mutex, prev, released, callOrder, admitOrder,
                 outcome, inits, shutdowns, tornDown, fnRuns, caught, syncVars, askVars,
                 extVars, pipeVars, convVars, wizStep, wizData, isReturning,
                 validated, invites, entered, inviteResult, windowsLog>>

\* Step 6: the chat answers the question about the bank connection and,
\* after the reply, leaves the scene.
BankStep(t, c) ==
  /\ Free(t)
  /\ WizardIdle(c)
  /\ wizStep[c] = 6
  /\ kind' = [kind EXCEPT ![t] = "wizard"]
  /\ chat' = [chat EXCEPT ![t] = c]
  /\ AwaitReply(t, "reply_leave")
  /\ UNCHANGED <<result, coordVars, syncVars, askVars, extVars, pipeVars,
                 convVars, setupVars, windowsLog>>

\* The awaited ctx.reply settles.  When it resolves the handler goes on:
\* ctx.wizard.next / selectStep / scene.leave (which drops the state of the
\* scene), and in the catch block of step 5 the data is dropped first.  When
\* it rejects the handler rejects.
ReplySettles(t) ==
  /\ pc[t] \in ReplyPositions
  /\ LET c == chat[t]
         position == pc[t]
     IN \/ /\ wizStep' = [wizStep EXCEPT ![c] =
                IF position = "reply_stay" THEN @
                ELSE IF position = "reply_leave" THEN 0 - 1
                ELSE IF position = "reply_failed" THEN 2
                ELSE StepAfter(position)]
           /\ wizData' = [wizData EXCEPT ![c] =
                IF position \in {"reply_failed", "reply_leave"}
                THEN EmptyData ELSE @]
        \/ UNCHANGED <<wizStep, wizData>>
  /\ validated' = [validated EXCEPT ![t] = None]
  /\ entered' = [entered EXCEPT ![t] = None]
  /\ inviteResult' = [inviteResult EXCEPT ![t] = None]
  /\ Finished(t)
  /\ UNCHANGED <<mutex, released, tornDown, today, lastSync, envLastSync,
                 ledger, dryRun, history, extVars, pipeVars, convVars,
                 clientOwner, users, isReturning, invites, windowsLog>>

\* ------------------------------------- useInviteCode over the pool (async)
\* useInviteCode(code, chatId) is called: the SELECT is sent.
UseInviteCodeCalled(t, c, code) ==
  /\ Free(t)
  /\ kind' = [kind EXCEPT ![t] = "invite"]
  /\ chat' = [chat EXCEPT ![t] = c]
  /\ entered' = [entered EXCEPT ![t] = Some(code)]
  /\ pc' = [pc EXCEPT ![t] = "select"]
  /\ UNCHANGED <<result, coordVars, syncVars, askVars, extVars, pipeVars,
                 convVars, clientOwner, users, wizStep, wizData, isReturning,
                 validated, invites, inviteResult, windowsLog>>

\* The UPDATE of useInviteCode has no condition on used_by.
UpdateInvite(code, c) == [invites EXCEPT ![code] = Some(c)]

\* await pool.query(SELECT) settles with the row as it is now: no row or a
\* row with used_by returns false, otherwise the UPDATE is sent.  A rejected
\* query rejects the call.
SelectSettles(t) ==
  /\ pc[t] = "select"
  /\ LET code == The(entered[t])
     IN \/ IF code \in Codes /\ invites[code] = None
           THEN /\ pc' = [pc EXCEPT ![t] = "update"]
                /\ UNCHANGED inviteResult
           ELSE /\ inviteResult' = [inviteResult EXCEPT ![t] = Some(FALSE)]
                /\ pc' = [pc EXCEPT ![t] = "returned"]
        \/ /\ pc' = [pc EXCEPT ![t] = "returned"]
           /\ UNCHANGED inviteResult
  /\ UNCHANGED <<kind, chat, result, coordVars, syncVars, askVars, extVars,
                 pipeVars, convVars, clientOwner, users, wizStep, wizData,
                 isReturning, validated, invites, entered, windowsLog>>

\* await pool.query(UPDATE) settles: used_by is set to this chat and the
\* call returns true; or the query rejects and so does the call.
UpdateSettles(t) ==
  /\ pc[t] = "update"
  /\ \/ /\ invites' = UpdateInvite(The(entered[t]), chat[t])
        /\ inviteResult' = [inviteResult EXCEPT ![t] = Some(TRUE)]
     \/ UNCHANGED <<invites, inviteResult>>
  /\ pc' = [pc EXCEPT ![t] = "returned"]
  /\ UNCHANGED <<kind, chat, result, coordVars, syncVars, askVars, extVars,
                 pipeVars, convVars, clientOwner, users, wizStep, wizData,
                 isReturning, validated, entered, windowsLog>>

\* The caller has used the result.
InviteCallEnds(t) ==
  /\ pc[t] = "returned"
  /\ entered' = [entered EXCEPT ![t] = None]
  /\ inviteResult' = [inviteResult EXCEPT ![t] = None]
  /\ Finished(t)
  /\ UNCHANGED <<mutex, released, tornDown, today, lastSync, envLastSync,
                 ledger, dryRun, history, extVars, pipeVars, convVars,
                 clientOwner, users, wizStep, wizData, isReturning, validated,
                 invites, windowsLog>>

\* ------------------------------------------- the History Store on its own
\* The k-th question a chat has asked since its last clear, and its answer.
Question(k) == <<"q", k>>
Answer(k) == <<"a", k, "text">>

\* askAgent has an answer for a question of chat c: addToHistory(question),
\* addToHistory(answer), with no await between them.
AppendPair(c) ==
  /\ appended[c] < MaxPairs
  /\ history' = [history EXCEPT ![c] =
        addToHistory(addToHistory(@, "user", Question(appended[c] + 1)),
                     "assistant", Answer(appended[c] + 1))]
  /\ appended' = [appended EXCEPT ![c] = @ + 1]
  /\ UNCHANGED <<pc, kind, chat, result, coordVars, syncVars, rounds,
                 modelCalls, response, answer, toolResults, lastText, rawTx,
                 mappedTx, pipeVars, convVars, setupVars,
                 windowsLog>>

\* /clear: clearHistory(ctx.chat.id) deletes the entry, getHistory makes an
\* empty one on the next use.
ClearHistoryOfAll(c) ==
  /\ history' = [d \in Chats |-> <<>>]
  /\ appended' = [d \in Chats |-> 0]
  /\ UNCHANGED <<pc, kind, chat, result, coordVars, syncVars, rounds,
                 modelCalls, response, answer, toolResults, lastText, rawTx,
                 mappedTx, pipeVars, convVars, setupVars,
                 windowsLog>>
ClearHistory(c) ==
  /\ history' = [history EXCEPT ![c] = <<>>]
  /\ appended' = [appended EXCEPT ![c] = 0]
  /\ clearedSince' = [t \in Tasks |->
       \/ clearedSince[t]
       \/ kind[t] = "ask" /\ chat[t] = c /\ pc[t] \notin {"idle", "done"}]
  /\ UNCHANGED <<pc, kind, chat, result, coordVars, syncVars, rounds,
                 modelCalls, response, answer, toolResults, lastText, rawTx,
                 mappedTx, pipeVars, messages, toolUseBlocks,
                 setupVars, windowsLog>>

\* ------------------------------------------------ the Mapper on its own
\* The raw transactions the provider may send: every combination of present
\* and absent fields.
RawInputs ==
  { Raw(bd, vd, td, amt, ind, cred, debt, remit, descr, tid, eref, st) :
      bd \in {None, Some(1)}, vd \in {None, Some(2)}, td \in {None, Some(3)},
      amt \in {None} \cup {Some(a) : a \in Amounts},
      ind \in {"DBIT", "CRDT", ""},
      cred \in {None, Some("Cred")}, debt \in {None, Some("Debt")},
      remit \in {<<>>, <<"r1">>, <<"r1", "r2">>},
      descr \in {None, Some("descr")},
      tid \in {None, Some("T")}, eref \in {None, Some("E")},
      st \in {"BOOK", "PDNG"} }

\* One raw transaction has been fetched.
InitMap ==
  /\ pc = [t \in Tasks |-> "idle"]
  /\ kind = [t \in Tasks |-> "none"]
  /\ chat = [t \in Tasks |-> "c1"]
  /\ result = [t \in Tasks |-> "pending"]
  /\ mutex = 0
  /\ prev = [t \in Tasks |-> 0]
  /\ released = {}
  /\ callOrder = <<>>
  /\ admitOrder = <<>>
  /\ outcome = [t \in Tasks |-> "none"]
  /\ inits = [t \in Tasks |-> 0]
  /\ shutdowns = [t \in Tasks |-> 0]
  /\ tornDown = [t \in Tasks |-> FALSE]
  /\ fnRuns = [t \in Tasks |-> 0]
  /\ caught = [t \in Tasks |-> FALSE]
  /\ today = 0
  /\ lastSync = [c \in Chats |-> None]
  /\ envLastSync = None
  /\ ledger = [b \in Budgets |-> <<>>]
  /\ userSnap = [t \in Tasks |-> None]
  /\ window = [t \in Tasks |-> <<0, 0>>]
  /\ batch = [t \in Tasks |-> <<>>]
  /\ dryRun = [t \in Tasks |-> FALSE]
  /\ imports = [t \in Tasks |-> 0]
  /\ rounds = [t \in Tasks |-> 0]
  /\ modelCalls = [t \in Tasks |-> 0]
  /\ response = [t \in Tasks |-> NoResponse]
  /\ answer = [t \in Tasks |-> None]
  /\ history = [c \in Chats |-> <<>>]
  /\ appended = [c \in Chats |-> 0]
  /\ toolResults = [t \in Tasks |-> <<>>]
  /\ lastText = [t \in Tasks |-> None]
  /\ rawTx \in {Some(raw) : raw \in RawInputs}
  /\ mappedTx = None
  /\ PipeInit
  /\ ConvInit
  /\ SetupInit

\* transactions.map(mapTransaction) for that transaction
MapRaw ==
  /\ rawTx # None
  /\ mappedTx = None
  /\ mappedTx' = Some(mapTransaction(The(rawTx)))
  /\ UNCHANGED <<pc, kind, chat, result, coordVars, syncVars, askVars,
                 appended, toolResults, lastText, rawTx, pipeVars, convVars, setupVars,
                 windowsLog>>

\* --------------------------------------- the sync, one await at a time
\* transactions.map(mapTransaction) for the fetched list, in its order
MapSeq(list) ==
  [k \in DOMAIN list |-> [tx |-> mapTransaction(Feed[list[k]]), src |-> list[k]]]

\* What the provider holds for the window of the sync of task t, in order.
Available(t) == SetToSeq(InWindow(window[t][1], window[t][2], today))

\* The pages the provider may answer the next request with: any number of
\* the transactions not served yet (or no transactions member at all), with
\* or without a continuation key; the last page it can serve has none.
NextPages(t) ==
  LET served == Len(allTransactions)
      left == Len(Available(t)) - served
      keys == IF Len(pagesLog) + 1 < MaxPages
              THEN {None, Some(Len(pagesLog) + 1)} ELSE {None}
  IN {[transactions |-> Some(SubSeq(Available(t), served + 1, served + k)),
       continuation_key |-> key] : k \in 0..left, key \in keys}
     \cup {[transactions |-> None, continuation_key |-> key] : key \in keys}

\* if (response.transactions && Array.isArray(response.transactions))
PageItems(page) ==
  IF page.transactions = None THEN <<>> ELSE The(page.transactions)

\* How a request may fail: the response status ("none" when fetch itself
\* failed) and which of the words the handlers look for the response text
\* contains; cause is what went wrong at the provider.
FetchErrors ==
  {[cause |-> "auth", status |-> "401", text |-> {}],
   [cause |-> "auth", status |-> "403", text |-> {}],
   [cause |-> "sessionInvalid", status |-> "422", text |-> {"session"}],
   [cause |-> "transport", status |-> "500", text |-> {}],
   [cause |-> "transport", status |-> "500", text |-> {"401"}],
   [cause |-> "transport", status |-> "none", text |-> {}]}

\* The message of the error apiRequest throws, as the set of the words
\* "401", "403", "unauthorized", "authentication", "session" it contains:
\* `Enable Banking API error (${response.status}): ${errorText}`, or the
\* message of the failure of fetch.
MessageOf(e) == IF e.status = "none" THEN e.text ELSE {e.status} \cup e.text

\* The catch block of getTransactions
IsAuthMessage(msg) ==
  \/ "401" \in msg \/ "403" \in msg
  \/ "unauthorized" \in msg \/ "authentication" \in msg
Rethrown(msg) == IF IsAuthMessage(msg) THEN msg \cup {"session"} ELSE msg

\* } while (continuationKey)
LoopContinuesNever(key) == FALSE
LoopContinues(key) == key # None

\* One iteration of the do-while loop of getTransactions: the request with
\* the continuation key at hand, and its response or its failure.
GetTransactionsPage(t) ==
  /\ pc[t] = "fetch"
  /\ requestKeys' = Append(requestKeys, continuationKey)
  /\ \/ \E page \in NextPages(t) :
          /\ allTransactions' = allTransactions \o PageItems(page)
          /\ continuationKey' = page.continuation_key
          /\ pagesLog' = Append(pagesLog, page)
          /\ pc' = [pc EXCEPT ![t] =
                      IF LoopContinues(page.continuation_key) THEN "fetch"
                      ELSE "fetched"]
          /\ UNCHANGED fetchError
     \/ \E e \in FetchErrors :
          /\ fetchError' = Some([cause |-> e.cause,
                                 message |-> Rethrown(MessageOf(e))])
          /\ pc' = [pc EXCEPT ![t] = "fetchFailed"]
          /\ UNCHANGED <<allTransactions, continuationKey, pagesLog>>
  /\ UNCHANGED <<kind, chat, result, coordVars, syncVars, askVars, extVars,
                 mappedAgain, importResult, report, returned,
                 convVars, setupVars,
                 windowsLog>>

\* The test the callers make on the message of a failed fetch (runSync and
\* friendlyError).
LooksExpired(msg) == "session" \in msg \/ "401" \in msg \/ "403" \in msg

NoCounts ==
  [fetched |-> 0, imported |-> 0, updated |-> 0, skipped |-> 0, errors |-> 0]

\* await getTransactions rejected: runSync prints "session expired or
\* invalid" and exits, or prints the failure and throws; the /sync handler
\* replies friendlyError(error).  Nothing is fetched again.
FetchFailed(t) ==
  /\ pc[t] = "fetchFailed"
  /\ report' = Some([kind |-> IF LooksExpired(The(fetchError).message)
                               THEN "sessionExpired" ELSE "fetchError",
                     shown |-> {}, counts |-> NoCounts])
  /\ pc' = [pc EXCEPT ![t] = "done"]
  /\ UNCHANGED <<kind, chat, result, coordVars, syncVars, askVars, extVars,
                 mappedAgain, fetchVars, importResult, returned,
                 convVars, setupVars,
                 windowsLog>>

\* What follows the mapping, given dryRun and the number of transactions:
\* the preview or the import; the length is not tested.
AfterFetchRejectsEmpty(dry, n) ==
  IF n = 0 THEN "error" ELSE IF DryRunReturns(dry) THEN "preview" ELSE "import"
AfterFetch(dry, n) == IF DryRunReturns(dry) THEN "preview" ELSE "import"

\* await getTransactions resolved: the list is mapped; a dry run previews it
\* and returns, otherwise importTransactions is called.
SyncMapped(t) ==
  /\ pc[t] = "fetched"
  /\ batch' = [batch EXCEPT ![t] = MapSeq(allTransactions)]
  /\ LET next == AfterFetch(dryRun[t], Len(allTransactions))
     IN IF next = "import"
        THEN /\ importTransactions(t)
             /\ UNCHANGED <<result, report>>
        ELSE /\ result' = [result EXCEPT ![t] =
                             IF next = "preview" THEN "dryRun" ELSE "error"]
             /\ report' = Some([kind |-> next, shown |-> {"fetched"},
                                counts |-> [NoCounts EXCEPT
                                   !.fetched = Len(allTransactions)]])
             /\ pc' = [pc EXCEPT ![t] = "done"]
             /\ UNCHANGED <<mutex, prev, callOrder>>
  /\ UNCHANGED <<kind, chat, released, admitOrder, outcome, inits, shutdowns,
                 tornDown, fnRuns, caught, today, lastSync, envLastSync, ledger,
                 userSnap, window, dryRun, imports, askVars, extVars,
                 mappedAgain, fetchVars, importResult, returned,
                 convVars, setupVars,
                 windowsLog>>

\* The records of a batch the ledger did not reject.
Accepted(recs, bad) ==
  LET keep == SetToSeq(DOMAIN recs \ bad)
  IN [k \in DOMAIN keep |-> recs[keep[k]]]

\* The ledger's import settles inside the block, as ImportDone: it resolves
\* with what it added, what it updated and the errors of the records it
\* rejected, or the call fails.
ImportSettles(t) ==
  /\ pc[t] = "import"
  /\ imports' = [imports EXCEPT ![t] = @ + 1]
  /\ \/ \E bad \in SUBSET DOMAIN batch[t] :
          LET after == LedgerImport(ledger[BudgetOf(t)], Accepted(batch[t], bad))
              added == Len(after) - Len(ledger[BudgetOf(t)])
              matched == Len(batch[t]) - Cardinality(bad) - added
          IN \E updated \in 0..matched :
               /\ ledger' = [ledger EXCEPT ![BudgetOf(t)] = after]
               /\ importResult' = Some([added |-> added, updated |-> updated,
                                        errors |-> Cardinality(bad)])
               /\ EnterFinally(t, "value")
     \/ /\ EnterFinally(t, "fnError")
        /\ UNCHANGED <<ledger, importResult>>
  /\ UNCHANGED <<kind, chat, result, mutex, prev, released, callOrder,
                 admitOrder, inits, tornDown, fnRuns, caught, today, lastSync,
                 envLastSync, userSnap, window, batch, dryRun, askVars, extVars,
                 mappedAgain, fetchVars, report, returned,
                 convVars, setupVars,
                 windowsLog>>

\* fetched, imported, updated, skipped and errors of the summary
Summary(fetched, res) ==
  [fetched |-> fetched, imported |-> res.added, updated |-> res.updated,
   skipped |-> fetched - res.added - res.updated, errors |-> res.errors]

\* The figures the summary shows: the line runSync prints, and the fields
\* the /sync handler hands to buildSyncMessage.
Shown(k) ==
  IF k = "runSync" THEN {"fetched", "imported", "skipped", "errors"}
  ELSE {"fetched", "imported", "updated", "skipped", "errors"}

\* After await importTransactions, as RunSyncFinish and SyncFinish: the
\* summary and the saved date, or the error.
SyncSummary(t) ==
  /\ pc[t] = "settled"
  /\ kind[t] \in {"runSync", "sync"}
  /\ IF SaveAfter(result[t])
     THEN /\ report' = Some([kind |-> "summary", shown |-> Shown(kind[t]),
                             counts |-> Summary(Len(allTransactions),
                                                The(importResult))])
          /\ IF kind[t] = "runSync"
             THEN /\ envLastSync' = Some(window[t][2])
                  /\ UNCHANGED lastSync
             ELSE /\ lastSync' = [lastSync EXCEPT ![chat[t]] = Some(window[t][2])]
                  /\ UNCHANGED envLastSync
     ELSE /\ report' = Some([kind |-> "importError", shown |-> {},
                             counts |-> NoCounts])
          /\ UNCHANGED <<lastSync, envLastSync>>
  /\ pc' = [pc EXCEPT ![t] = "done"]
  /\ windowsLog' = WindowSynced(IF kind[t] = "runSync" THEN "env" ELSE chat[t],
                                result[t], window[t])
  /\ UNCHANGED <<kind, chat, result, coordVars, today, ledger, userSnap,
                 window, batch, dryRun, imports, askVars, extVars, mappedAgain,
                 fetchVars, importResult, returned,
                 convVars, setupVars>>

\* The sync has ended and the next one begins: the CLI process is run again,
\* or the handler has returned and the bot takes the next update; a promise
\* that was released behaves as Promise.resolve() from then on.
PipelineRestart ==
  /\ pc[1] = "done"
  /\ kind[1] \in {"runSync", "sync"}
  /\ pc' = [pc EXCEPT ![1] = "idle"]
  /\ kind' = [kind EXCEPT ![1] = "none"]
  /\ result' = [result EXCEPT ![1] = "pending"]
  /\ IF kind[1] = "runSync" \/ mutex = 0 \/ mutex \in released
     THEN /\ mutex' = 0
          /\ released' = {}
          /\ tornDown' = [tornDown EXCEPT ![1] = FALSE]
     ELSE UNCHANGED <<mutex, released, tornDown>>
  /\ prev' = [prev EXCEPT ![1] = 0]
  /\ callOrder' = <<>>
  /\ admitOrder' = <<>>
  /\ outcome' = [outcome EXCEPT ![1] = "none"]
  /\ inits' = [inits EXCEPT ![1] = 0]
  /\ shutdowns' = [shutdowns EXCEPT ![1] = 0]
  /\ fnRuns' = [fnRuns EXCEPT ![1] = 0]
  /\ caught' = [caught EXCEPT ![1] = FALSE]
  /\ userSnap' = [userSnap EXCEPT ![1] = None]
  /\ window' = [window EXCEPT ![1] = <<0, 0>>]
  /\ batch' = [batch EXCEPT ![1] = <<>>]
  /\ dryRun' = [dryRun EXCEPT ![1] = FALSE]
  /\ imports' = [imports EXCEPT ![1] = 0]
  /\ continuationKey' = None
  /\ allTransactions' = <<>>
  /\ pagesLog' = <<>>
  /\ requestKeys' = <<>>
  /\ fetchError' = None
  /\ importResult' = None
  /\ report' = None
  /\ UNCHANGED <<chat, today, lastSync, envLastSync, ledger, askVars,
                 extVars, mappedAgain, returned,
                 convVars, setupVars,
                 windowsLog>>

\* ------------------------------------- the provider's record, as it is sent
\* A property that holds an object is absent ({}) or holds the object ({m}),
\* whose member of interest m is itself optional.  The amount member is a
\* decimal string (sign, whole part, digits after the point), the empty
\* string, or a number (held in thousandths).
DecimalString(neg, whole, frac) ==
  [type |-> "string", neg |-> neg, whole |-> whole, frac |-> frac]
EmptyString == [type |-> "empty"]
Number(milli) == [type |-> "number", milli |-> milli]

\* obj?.member: undefined when obj is absent; obj.member would throw.
StrictMember(obj) ==
  [thrown |-> obj = None, value |-> IF obj = None THEN None ELSE The(obj)]
OptionalMember(obj) ==
  [thrown |-> FALSE, value |-> IF obj = None THEN None ELSE The(obj)]

\* v || 0 for the amount member: undefined, "" and 0 are falsy.
OrZero(v) ==
  IF v = None THEN Number(0)
  ELSE IF The(v).type = "empty" THEN Number(0)
  ELSE IF The(v).type = "number" /\ The(v).milli = 0 THEN Number(0)
  ELSE The(v)

\* parseFloat, in thousandths: a number is parsed from its own decimal
\* representation, a decimal string digit by digit.
parseFloat(v) ==
  IF v.type = "number" THEN v.milli
  ELSE LET digit(i) == IF i <= Len(v.frac) THEN v.frac[i] ELSE 0
           magnitude == v.whole * 1000 + digit(1) * 100 + digit(2) * 10 + digit(3)
       IN IF v.neg THEN 0 - magnitude ELSE magnitude

\* mapTransaction on the record as sent: the member accesses it makes, and
\* the mapping of what they yield.  An access on an absent object that is
\* not optional ends the call with a TypeError.
mapProviderRecord(rec) ==
  LET amountOf == OptionalMember(rec.transaction_amount)
      creditorName == OptionalMember(rec.creditor)
      debtorName == OptionalMember(rec.debtor)
      codeDescription == OptionalMember(rec.bank_transaction_code)
      ind == IF rec.credit_debit_indicator = None THEN ""
             ELSE The(rec.credit_debit_indicator)
      thrown ==
        \/ amountOf.thrown
        \/ ind = "CRDT" /\ creditorName.thrown
        \/ ind = "DBIT" /\ debtorName.thrown
        \/ codeDescription.thrown
  IN IF thrown THEN [thrown |-> "TypeError"]
     ELSE mapTransaction(
            Raw(rec.booking_date, rec.value_date, rec.transaction_date,
                Some(parseFloat(OrZero(amountOf.value))), ind,
                creditorName.value, debtorName.value,
                IF rec.remittance_information = None THEN <<>>
                ELSE The(rec.remittance_information),
                codeDescription.value, rec.transaction_id,
                rec.entry_reference,
                IF rec.status = None THEN "" ELSE The(rec.status)))

\* The amounts a record may carry: "12.345", "-12.345", "0", "2.5", "", and
\* the numbers 12.345, 0 and -2.5.
AmountValues ==
  {DecimalString(FALSE, 12, <<3, 4, 5>>), DecimalString(TRUE, 12, <<3, 4, 5>>),
   DecimalString(FALSE, 0, <<>>), DecimalString(FALSE, 2, <<5>>), EmptyString,
   Number(12345), Number(0), Number(0 - 2500)}

\* The records the provider may send: every subset of the fields missing.
ProviderRecords ==
  [booking_date : {None, Some(1)}, value_date : {None, Some(2)},
   transaction_date : {None, Some(3)},
   transaction_amount : {None, Some(None)} \cup {Some(Some(a)) : a \in AmountValues},
   credit_debit_indicator : {None, Some("DBIT"), Some("CRDT")},
   creditor : {None, Some(None), Some(Some("Cred"))},
   debtor : {None, Some(None), Some(Some("Debt"))},
   remittance_information : {None, Some(<<>>), Some(<<"r1", "r2">>)},
   bank_transaction_code : {None, Some(None), Some(Some("descr"))},
   transaction_id : {None, Some("T")}, entry_reference : {None, Some("E")},
   status : {None, Some("BOOK")}]

\* One record has been fetched, as the provider sent it.
InitRecord ==
  /\ pc = [t \in Tasks |-> "idle"]
  /\ kind = [t \in Tasks |-> "none"]
  /\ chat = [t \in Tasks |-> "c1"]
  /\ result = [t \in Tasks |-> "pending"]
  /\ mutex = 0
  /\ prev = [t \in Tasks |-> 0]
  /\ released = {}
  /\ callOrder = <<>>
  /\ admitOrder = <<>>
  /\ outcome = [t \in Tasks |-> "none"]
  /\ inits = [t \in Tasks |-> 0]
  /\ shutdowns = [t \in Tasks |-> 0]
  /\ tornDown = [t \in Tasks |-> FALSE]
  /\ fnRuns = [t \in Tasks |-> 0]
  /\ caught = [t \in Tasks |-> FALSE]
  /\ today = 0
  /\ lastSync = [c \in Chats |-> None]
  /\ envLastSync = None
  /\ ledger = [b \in Budgets |-> <<>>]
  /\ userSnap = [t \in Tasks |-> None]
  /\ window = [t \in Tasks |-> <<0, 0>>]
  /\ batch = [t \in Tasks |-> <<>>]
  /\ dryRun = [t \in Tasks |-> FALSE]
  /\ imports = [t \in Tasks |-> 0]
  /\ rounds = [t \in Tasks |-> 0]
  /\ modelCalls = [t \in Tasks |-> 0]
  /\ response = [t \in Tasks |-> NoResponse]
  /\ answer = [t \in Tasks |-> None]
  /\ history = [c \in Chats |-> <<>>]
  /\ appended = [c \in Chats |-> 0]
  /\ toolResults = [t \in Tasks |-> <<>>]
  /\ lastText = [t \in Tasks |-> None]
  /\ rawTx \in {Some(rec) : rec \in ProviderRecords}
  /\ mappedTx = None
  /\ PipeInit
  /\ ConvInit
  /\ SetupInit

\* transactions.map(mapTransaction) for that record
MapRecord ==
  /\ rawTx # None
  /\ mappedTx = None
  /\ mappedTx' = Some(mapProviderRecord(The(rawTx)))
  /\ UNCHANGED <<pc, kind, chat, result, coordVars, syncVars, askVars,
                 appended, toolResults, lastText, rawTx, pipeVars, convVars, setupVars,
                 windowsLog>>

\* mapTransaction is called a second time for the same transaction (a later
\* sync fetches it again).
MapAgain ==
  /\ rawTx # None
  /\ mappedTx # None
  /\ mappedAgain = None
  /\ mappedAgain' = Some(mapTransaction(The(rawTx)))
  /\ UNCHANGED <<pc, kind, chat, result, coordVars, syncVars, askVars,
                 extVars, fetchVars, importResult, report, returned,
                 convVars, setupVars,
                 windowsLog>>

\* -------------------------------------------------------- specifications
\* The bot process: any handlers in any interleaving, within one day.
Next ==
  \/ \E t \in Tasks : \E c \in ChatsFor(t) : StartSync(t, c)
  \/ \E t \in Tasks : \E c \in ChatsFor(t) : StartQuery(t, c)
  \/ \E t \in Tasks : \E c \in ChatsFor(t) : StartAsk(t, c)
  \/ \E t \in Tasks : SyncBegin(t)
  \/ \E t \in Tasks : SyncFetched(t)
  \/ \E t \in Tasks : FirstResponse(t)
  \/ \E t \in Tasks : Admit(t)
  \/ \E t \in Tasks : InitDone(t)
  \/ \E t \in Tasks : DownloadDone(t)
  \/ \E t \in Tasks : QueryDone(t)
  \/ \E t \in Tasks : ToolsDone(t)
  \/ \E t \in Tasks : ModelResponse(t)
  \/ \E t \in Tasks : ImportDone(t)
  \/ \E t \in Tasks : ShutdownDone(t)
  \/ \E t \in Tasks : SyncFinish(t)
  \/ \E t \in Tasks : QueryReply(t)
  \/ \E t \in Tasks : AskReturn(t)

Spec == Init /\ [][Next]_vars

\* The CLI process, run any number of times.
NextCli ==
  \/ \E dry \in BOOLEAN : RunSyncStart(dry)
  \/ RunSyncFetched
  \/ Admit(1)
  \/ InitDone(1)
  \/ DownloadDone(1)
  \/ ImportDone(1)
  \/ ShutdownDone(1)
  \/ RunSyncFinish
  \/ CliRestart
  \/ Tick

SpecCli == Init /\ [][NextCli]_vars

\* One chat asking questions one after the other, with /clear at any time.
NextAsk ==
  \/ \E c \in ChatsFor(1) : appended[c] < MaxQuestions /\ StartAsk(1, c)
  \/ AskFirstResponse(1)
  \/ Admit(1)
  \/ InitDone(1)
  \/ DownloadDone(1)
  \/ ExecuteBlock(1)
  \/ RoundCallsModel(1)
  \/ AskRoundResponse(1)
  \/ ShutdownDone(1)
  \/ AskFinish(1)
  \/ NextUpdate(1)
  \/ \E c \in ChatsFor(1) : ClearHistory(c)

SpecAsk == Init /\ [][NextAsk]_vars

\* The History Store under any sequence of answered questions and clears.
NextHistory ==
  \/ \E c \in Chats : AppendPair(c)
  \/ \E c \in Chats : ClearHistory(c)

SpecHistory == Init /\ [][NextHistory]_vars

\* The Mapper applied to any one raw transaction.
NextMap == MapRaw \/ MapAgain

SpecMap == InitMap /\ [][NextMap]_vars

\* One sync after the other, by the CLI or by the /sync handler, call by call.
NextSync ==
  \/ \E dry \in BOOLEAN : RunSyncStart(dry)
  \/ \E c \in ChatsFor(1) : StartSync(1, c)
  \/ SyncBegin(1)
  \/ GetTransactionsPage(1)
  \/ FetchFailed(1)
  \/ SyncMapped(1)
  \/ Admit(1)
  \/ InitDone(1)
  \/ DownloadDone(1)
  \/ ImportSettles(1)
  \/ ShutdownDone(1)
  \/ SyncSummary(1)
  \/ PipelineRestart
  \/ Tick

SpecSync == Init /\ [][NextSync]_vars

\* The Mapper applied to any one record as the provider sends it.
NextRecord == MapRecord

SpecRecord == InitRecord /\ [][NextRecord]_vars

\* One chat asking questions, with the message list of each question.
NextRounds ==
  \/ \E c \in ChatsFor(1) : appended[c] < MaxQuestions /\ AskAgentCalled(1, c)
  \/ FirstResponseArrives(1)
  \/ Admit(1)
  \/ InitDone(1)
  \/ FnCalled(1)
  \/ ExecutorSettles(1)
  \/ ResultsPushed(1)
  \/ RoundResponseArrives(1)
  \/ ShutdownDone(1)
  \/ AskAgentReturns(1)
  \/ NextUpdate(1)

SpecRounds == Init /\ [][NextRounds]_vars

\* The setup wizard of the chat c1, whose updates are handled in slot 1,
\* beside query commands of the registered chat c2 in slot 2.  The texts
\* entered differ in the server URL and in the account id.
NextSetup ==
  \/ SetupCommand(1, "c1")
  \/ EmptyText(1, "c1")
  \/ \E code \in Codes \cup {"none"} : InviteStep(1, "c1", code)
  \/ \E text \in Texts : UrlStep(1, "c1", text)
  \/ \E text \in {"a"} : PasswordStep(1, "c1", text)
  \/ \E text \in {"a"} : BudgetStep(1, "c1", text)
  \/ \E text \in Texts : AccountStep(1, "c1", text)
  \/ BankStep(1, "c1")
  \/ \E t \in Tasks : ValidateCalled(t)
  \/ \E t \in Tasks : ValidateInitDone(t)
  \/ \E t \in Tasks : ValidateDownloadDone(t)
  \/ \E t \in Tasks : ValidateAccountsDone(t)
  \/ \E t \in Tasks : ValidateShutdownDone(t)
  \/ \E t \in Tasks : ReplySettles(t)
  \/ StartQuery(2, "c2")
  \/ \E t \in Tasks : Admit(t)
  \/ \E t \in Tasks : InitDone(t)
  \/ \E t \in Tasks : DownloadDone(t)
  \/ \E t \in Tasks : QueryDone(t)
  \/ \E t \in Tasks : ShutdownDone(t)
  \/ \E t \in Tasks : QueryReply(t)
  \/ \E t \in Tasks : NextUpdate(t)

SpecSetup == InitSetup /\ [][NextSetup]_vars

\* Calls of the pool-based useInviteCode by the chats.
NextInvite ==
  \/ \E t \in Tasks : \E c \in ChatsFor(t) :
       \E code \in Codes \cup {"none"} : UseInviteCodeCalled(t, c, code)
  \/ \E t \in Tasks : SelectSettles(t)
  \/ \E t \in Tasks : UpdateSettles(t)
  \/ \E t \in Tasks : InviteCallEnds(t)
  \/ \E t \in Tasks : NextUpdate(t)

SpecInvite == Init /\ [][NextInvite]_vars

\* The /sync handlers of one chat, two at a time, over the days, each sync
\* logging its window.
NextWindows ==
  \/ \E t \in Tasks : StartSync(t, "c1")
  \/ \E t \in Tasks : SyncBegin(t)
  \/ \E t \in Tasks : SyncFetched(t)
  \/ \E t \in Tasks : Admit(t)
  \/ \E t \in Tasks : InitDone(t)
  \/ \E t \in Tasks : DownloadDone(t)
  \/ \E t \in Tasks : ImportDone(t)
  \/ \E t \in Tasks : ShutdownDone(t)
  \/ \E t \in Tasks : SyncFinish(t)
  \/ \E t \in Tasks : NextUpdate(t)
  \/ Tick

SpecWindows == InitWindows /\ [][NextWindows]_vars

\* ================================================================ claims
Settled(t) == pc[t] = "settled"
IsPrefix(a, b) ==
  /\ Len(a) <= Len(b)
  /\ \A i \in 1..Len(a) : a[i] = b[i]

\* C1: at most one ledger session is live at any instant, and the connect
\* step (api.init) of a caller has begun only if the teardown (api.shutdown)
\* of the caller queued before it has settled.
C1_OneLiveSession ==
  \A t \in Tasks :
    pc[t] \in InSession =>
      /\ \A u \in Tasks \ {t} : pc[u] \notin InSession
      /\ prev[t] # 0 => tornDown[prev[t]]

\* A later caller is connecting after its predecessor was torn down.
C1_Witness ==
  \E t \in Tasks : pc[t] = "init" /\ prev[t] # 0 /\ tornDown[prev[t]]

\* C2: while the ledger import of a sync is in flight no question and no
\* other sync holds a session, and while a tool round of a question runs no
\* sync holds one: the later operation waits for the earlier session to close.
C2_SyncNeverInterleaves ==
  \A t \in Tasks : \A u \in Tasks \ {t} :
    /\ (kind[t] = "sync" /\ pc[t] = "import" /\ kind[u] \in {"sync", "ask"})
         => pc[u] \notin InSession
    /\ (kind[t] = "ask" /\ pc[t] \in {"tools", "model"} /\ kind[u] = "sync")
         => pc[u] \notin InSession

\* A sync is importing while a question that asked for a tool waits in the
\* queue behind it.
C2_Witness ==
  \E t \in Tasks : \E u \in Tasks :
    /\ kind[t] = "sync" /\ pc[t] = "import"
    /\ kind[u] = "ask" /\ pc[u] = "queued" /\ prev[u] = t

\* C3: callers are admitted in the order of their withActual calls, whatever
\* their chat.
C3_Fifo == IsPrefix(admitOrder, callOrder)

\* Two callers of different chats have been admitted one after the other.
C3_Witness ==
  /\ Len(admitOrder) = 2
  /\ chat[admitOrder[1]] # chat[admitOrder[2]]
  /\ pc[admitOrder[2]] \in InSession

\* C4: a block that has exited after fn ran has called api.shutdown and
\* released its slot, and a queued caller whose predecessor's block has exited
\* can be admitted.
C4_ExitReleasesSlot ==
  /\ \A t \in Tasks :
       (Settled(t) /\ fnRuns[t] > 0) => (shutdowns[t] = 1 /\ t \in released)
  /\ \A u \in Tasks :
       (pc[u] = "queued" /\ prev[u] # 0 /\ pc[prev[u]] \in {"settled", "done"})
         => prev[u] \in released

\* C5: a failed acquisition step never runs fn, is returned to the caller and
\* releases the slot.
AcquisitionErrors == {"mkdirError", "initError", "downloadError"}
C5_AcquisitionFailureReleases ==
  \A t \in Tasks :
    (Settled(t) /\ result[t] \in AcquisitionErrors)
      => (fnRuns[t] = 0 /\ t \in released)

\* C6: when fn ran, withActual settles exactly as fn did (its value or its
\* own error), also when api.shutdown threw.
C6_OutcomeIsFnOutcome ==
  \A t \in Tasks :
    (Settled(t) /\ fnRuns[t] > 0) =>
      /\ outcome[t] \in {"value", "fnError"}
      /\ result[t] = outcome[t]
      /\ (kind[t] = "ask" /\ result[t] = "value") => answer[t] # None

\* fn threw, api.shutdown threw too, and withActual rejected with fn's error.
C6_Witness ==
  \E t \in Tasks :
    Settled(t) /\ fnRuns[t] = 1 /\ caught[t] /\ outcome[t] = "fnError"
      /\ result[t] = "fnError"

\* The external id the spec gives a raw transaction: the provider's
\* transaction id, else its entry reference.
ExternalId(tx) == IF tx.transaction_id # None THEN tx.transaction_id
                  ELSE tx.entry_reference
EntriesWithId(b, id) == {k \in DOMAIN ledger[b] : ledger[b][k].imported_id = id}

\* C7: over any number of sync runs every ledger entry carries the external
\* id of the transaction it was created from, and no two entries of a ledger
\* come from the same transaction or carry the same external id.
C7_OneEntryPerExternalId ==
  \A b \in Budgets : \A k \in DOMAIN ledger[b] :
    /\ ledger[b][k].imported_id = ExternalId(Feed[ledger[b][k].src])
    /\ \A j \in DOMAIN ledger[b] :
         j # k => /\ ledger[b][j].src # ledger[b][k].src
                  /\ ledger[b][j].imported_id # ledger[b][k].imported_id

\* After an earlier successful run, a later run with an overlapping window
\* has imported TX1 again and the ledger holds it once.
C7_Witness ==
  /\ kind[1] = "runSync" /\ Settled(1) /\ result[1] = "value"
  /\ envLastSync # None
  /\ \E k \in DOMAIN batch[1] : batch[1][k].tx.imported_id = Some("TX1")
  /\ Cardinality(EntriesWithId("env", Some("TX1"))) = 1

\* C8: the persisted last-sync date changes only in the step after the
\* import of that same sync succeeded, and then to the window's `to`.
C8_DateOnlyAfterImport ==
  [][ /\ envLastSync' # envLastSync =>
           /\ kind[1] = "runSync" /\ Settled(1) /\ result[1] = "value"
           /\ imports[1] = 1
           /\ envLastSync' = Some(window[1][2])
      /\ \A c \in Chats :
           lastSync'[c] # lastSync[c] =>
             \E t \in Tasks :
               /\ kind[t] = "sync" /\ chat[t] = c /\ Settled(t)
               /\ result[t] = "value" /\ imports[t] = 1
               /\ lastSync'[c] = Some(window[t][2]) ]_vars

\* A sync whose import call failed has ended and the persisted date is not
\* its window's `to`.
C8_Witness ==
  /\ kind[1] = "runSync" /\ pc[1] = "done" /\ result[1] = "fnError"
  /\ imports[1] = 1
  /\ envLastSync # Some(window[1][2])

\* C9: a dry run fetches and maps, never enters the coordinator or the
\* ledger import, and leaves the ledger and the persisted date as they were.
C9_DryRunTouchesNothing ==
  /\ [](dryRun[1] =>
          /\ pc[1] \in {"fetch", "done"}
          /\ imports[1] = 0 /\ inits[1] = 0
          /\ pc[1] = "done" /\ result[1] = "dryRun" =>
               batch[1] = MapBatch(InWindow(window[1][1], window[1][2], window[1][2])))
  /\ [][(dryRun[1] /\ dryRun'[1]) =>
          (ledger' = ledger /\ envLastSync' = envLastSync)]_vars

\* A dry run has returned with a non-empty preview.
C9_Witness ==
  /\ dryRun[1] /\ pc[1] = "done" /\ result[1] = "dryRun"
  /\ Len(batch[1]) > 0 /\ imports[1] = 0

\* C10: askAgent runs at most MAX_TOOL_ROUNDS rounds and calls the model at
\* most MAX_TOOL_ROUNDS + 1 times; when the response of the last allowed
\* round arrives fn ends (with the text of that response unless the call
\* failed) even if it asks for tools again.
C10_BoundedRounds ==
  /\ [](\A t \in Tasks :
          /\ rounds[t] <= MAX_TOOL_ROUNDS
          /\ modelCalls[t] <= MAX_TOOL_ROUNDS + 1
          /\ pc[t] \in {"tools", "model"} =>
               modelCalls[t] = rounds[t] + (IF pc[t] = "model" THEN 1 ELSE 0))
  /\ [][\A t \in Tasks :
          (pc[t] = "model" /\ rounds[t] = MAX_TOOL_ROUNDS /\ pc'[t] # "model")
            => /\ pc'[t] = "shutdown"
               /\ outcome'[t] = "value" => answer'[t] # None]_vars

\* The model asked for tools in every response: the tenth round has run and
\* the eleventh call is in flight.
C10_Witness ==
  \E t \in Tasks :
    pc[t] = "model" /\ rounds[t] = MAX_TOOL_ROUNDS
      /\ modelCalls[t] = MAX_TOOL_ROUNDS + 1

\* What the result of a tool call must be, by the kind of the call.
ExpectedPayload(call) ==
  IF call = "unknown" THEN "error: Unknown tool"
  ELSE IF call = "throws" THEN "error: message" ELSE "value"

\* C11: inside a round a tool call without executor and a tool call whose
\* executor throws each leave an error payload as their result, every other
\* call of the round leaves its value, and no tool call ends the round or the
\* question: after a tool call the round goes on or the model is called.
C11_ToolErrorsAreResults ==
  /\ [](\A t \in Tasks : \A i \in DOMAIN toolResults[t] :
          toolResults[t][i].content = ExpectedPayload(toolResults[t][i].call))
  /\ [][\A t \in Tasks :
          pc[t] = "tools" =>
            /\ pc'[t] \in {"tools", "model"}
            /\ outcome'[t] = outcome[t]
            /\ \A i \in DOMAIN toolResults[t] :
                 /\ i \in DOMAIN toolResults'[t]
                 /\ toolResults'[t][i] = toolResults[t][i]]_vars

\* A round has completed in which the first call threw and the second call
\* was still executed and returned.
C11_Witness ==
  \E t \in Tasks :
    /\ pc[t] = "model"
    /\ Len(toolResults[t]) = 2
    /\ toolResults[t][1].call = "throws"
    /\ toolResults[t][1].content = "error: message"
    /\ toolResults[t][2].content = "value"

Occurrences(seq, x) == Cardinality({i \in DOMAIN seq : seq[i] = x})

\* C12: a question whose first response asks for a tool makes one withActual
\* call, with at most one api.init and one api.shutdown, and every tool call
\* of every round runs after that init and before that shutdown.
C12_OneSessionPerQuestion ==
  /\ [](\A t \in Tasks :
          /\ Occurrences(callOrder, t) <= 1
          /\ inits[t] <= 1 /\ shutdowns[t] <= 1
          /\ pc[t] \in {"tools", "model"} =>
               /\ Occurrences(callOrder, t) = 1
               /\ inits[t] = 1 /\ shutdowns[t] = 0 /\ fnRuns[t] = 1)
  /\ [][\A t \in Tasks :
          toolResults'[t] # toolResults[t] /\ toolResults'[t] # <<>> =>
            /\ inits[t] = 1 /\ shutdowns[t] = 0
            /\ inits'[t] = 1 /\ shutdowns'[t] = 0]_vars

\* A tool call of the third round has run in the session opened for the
\* question.
C12_Witness ==
  \E t \in Tasks :
    /\ pc[t] = "tools" /\ rounds[t] = 3 /\ Len(toolResults[t]) > 0
    /\ inits[t] = 1 /\ shutdowns[t] = 0

\* The last n entries of a log.
LastEntries(log, n) ==
  IF Len(log) <= n THEN log ELSE SubSeq(log, Len(log) - n + 1, Len(log))

\* The step in which askAgent ends after its tool-use loop was entered.
AskEndsAfterLoop(t) ==
  /\ kind[t] = "ask" /\ pc[t] = "settled" /\ fnRuns[t] > 0
  /\ pc'[t] = "done"

\* C13 as stated: whenever askAgent ends after the tool-use loop was entered,
\* the session has been closed and the question and the answer have been
\* appended to the history, whatever the outcome of the loop.
C13_HistoryAndCloseAlways ==
  [][\A t \in Tasks :
       AskEndsAfterLoop(t) =>
         /\ shutdowns[t] = 1 /\ t \in released
         /\ appended'[chat[t]] = appended[chat[t]] + 1]_vars

\* C13 amended: the session is closed whatever the outcome of the loop; the
\* question and the answer are appended when the loop returned an answer, and
\* the history is left as it was when the loop ended with an error.
C13_CloseAlwaysHistoryOnAnswer ==
  [][\A t \in Tasks :
       AskEndsAfterLoop(t) =>
         /\ shutdowns[t] = 1 /\ t \in released /\ tornDown[t]
         /\ result[t] = "value" =>
              /\ appended'[chat[t]] = appended[chat[t]] + 1
              /\ history'[chat[t]] =
                   LastEntries(
                     history[chat[t]] \o
                       <<[role |-> "user", content |-> <<"q", t>>],
                         [role |-> "assistant", content |-> The(answer[t])]>>,
                     20)
         /\ result[t] # "value" => history' = history]_vars

\* The loop ended with an error, the session was closed and the history is
\* still empty.
C13_Witness ==
  \E t \in Tasks :
    /\ kind[t] = "ask" /\ pc[t] = "settled" /\ fnRuns[t] = 1
    /\ result[t] = "fnError" /\ shutdowns[t] = 1 /\ t \in released
    /\ history[chat[t]] = <<>>

\* C14: the answer askAgent returns from the tool-use loop is the last text
\* the model produced for the question, in whichever response it came.
C14_AnswerIsLastText ==
  \A t \in Tasks :
    (kind[t] = "ask" /\ pc[t] = "settled" /\ result[t] = "value") =>
      answer[t] = (IF lastText[t] = None THEN Some(<<"a", t, "">>)
                   ELSE lastText[t])

\* C15: the history of every chat holds at most 10 question/answer pairs,
\* 20 entries, after any sequence of answered questions and clears.
C15_HistoryCapped ==
  \A c \in Chats : Len(history[c]) <= 20

\* A chat has appended more than ten pairs and holds twenty entries.
C15_Witness ==
  \E c \in Chats : appended[c] >= 11 /\ Len(history[c]) = 20

\* Everything a chat has appended since its last clear, in append order.
FullLog(n) ==
  [i \in 1..(2 * n) |->
     IF i % 2 = 1 THEN [role |-> "user", content |-> Question((i + 1) \div 2)]
     ELSE [role |-> "assistant", content |-> Answer(i \div 2)]]

C17_ToolsOnlyQuery ==
  /\ [](\A name \in ToolNames : \A b \in Budgets :
          ApplyApiCalls(ApiCallsOf(name), ledger[b]) = ledger[b])
  /\ [][(\E t \in Tasks : toolResults'[t] # toolResults[t]) =>
          ledger' = ledger]_vars

\* Two executors have run in one round.
C17_Witness ==
  \E t \in Tasks :
    /\ pc[t] = "tools" /\ Len(toolResults[t]) = 2
    /\ toolResults[t][1].call = "ok" /\ toolResults[t][2].call = "ok"
    /\ ledger[BudgetOf(t)] = <<>>

\* C18: whatever the sign of the raw amount, a mapped debit is not positive
\* and a mapped credit is not negative.
C18_SignForcedByIndicator ==
  (rawTx # None /\ mappedTx # None) =>
    /\ The(rawTx).credit_debit_indicator = "DBIT" => The(mappedTx).amount <= 0
    /\ The(rawTx).credit_debit_indicator = "CRDT" => The(mappedTx).amount >= 0

\* A credit that came with a negative raw amount has been mapped to a
\* positive amount.
C18_Witness ==
  /\ rawTx # None /\ mappedTx # None
  /\ The(rawTx).amount = Some(0 - 12345)
  /\ The(rawTx).credit_debit_indicator = "CRDT"
  /\ The(mappedTx).amount > 0

\* Rounding to the nearest integer with halves away from zero, of a value in
\* thousandths of the currency unit to cents.
HalfAwayCents(milli) ==
  IF milli < 0 THEN 0 - ((5 - milli) \div 10) ELSE (milli + 5) \div 10
ForcedSign(ind, cents) ==
  IF ind = "DBIT" THEN 0 - (IF cents < 0 THEN 0 - cents ELSE cents)
  ELSE IF ind = "CRDT" THEN (IF cents < 0 THEN 0 - cents ELSE cents)
  ELSE cents

\* C19: the mapped amount is the raw decimal amount times 100 rounded to the
\* nearest integer, halves away from zero, for positive and negative raw
\* amounts, with the sign the indicator forces.
C19_RoundHalfAwayFromZero ==
  (rawTx # None /\ mappedTx # None /\ The(rawTx).amount # None) =>
    The(mappedTx).amount =
      ForcedSign(The(rawTx).credit_debit_indicator,
                 HalfAwayCents(The(The(rawTx).amount)))

\* C20: the mapped date is the first present one of booking_date, value_date
\* and transaction_date, in that order.
C20_DatePriority ==
  (rawTx # None /\ mappedTx # None) =>
    LET tx == The(rawTx)
    IN The(mappedTx).date =
         (IF tx.booking_date # None THEN tx.booking_date
          ELSE IF tx.value_date # None THEN tx.value_date
          ELSE tx.transaction_date)

\* A transaction without a booking date, with a value date and a transaction
\* date, has been mapped to its value date.
C20_Witness ==
  /\ rawTx # None /\ mappedTx # None
  /\ The(rawTx).booking_date = None
  /\ The(rawTx).value_date = Some(2)
  /\ The(rawTx).transaction_date = Some(3)
  /\ The(mappedTx).date = Some(2)

CanonicalFields ==
  {"date", "amount", "payee_name", "notes", "imported_id", "cleared"}

RECURSIVE Concatenated(_)
Concatenated(pages) ==
  IF Len(pages) = 0 THEN <<>>
  ELSE Concatenated(SubSeq(pages, 1, Len(pages) - 1))
         \o (IF pages[Len(pages)].transactions = None THEN <<>>
             ELSE The(pages[Len(pages)].transactions))

\* C23: getTransactions sends its first request without a continuation key
\* and every later request with the key the page before returned; it asks for
\* another page exactly while the last page carried a key, returns at the
\* first page without one, and what it has accumulated is the transactions of
\* the pages received, concatenated in page order.
C23_FollowsContinuationKeys ==
  /\ allTransactions = Concatenated(pagesLog)
  /\ Len(requestKeys) >= Len(pagesLog)
  /\ Len(requestKeys) <= Len(pagesLog) + 1
  /\ \A i \in DOMAIN requestKeys :
       IF i = 1 THEN requestKeys[i] = None
       ELSE /\ pagesLog[i - 1].continuation_key # None
            /\ requestKeys[i] = pagesLog[i - 1].continuation_key
  /\ \A i \in DOMAIN pagesLog :
       (i < Len(pagesLog)) => pagesLog[i].continuation_key # None
  /\ (pc[1] = "fetch" /\ Len(pagesLog) > 0) =>
       pagesLog[Len(pagesLog)].continuation_key # None
  /\ pc[1] = "fetched" =>
       /\ Len(pagesLog) > 0
       /\ Len(requestKeys) = Len(pagesLog)
       /\ pagesLog[Len(pagesLog)].continuation_key = None
  /\ (kind[1] \in {"runSync", "sync"}
        /\ pc[1] \in {"queued", "init", "download", "import", "shutdown", "settled"})
       => /\ pagesLog[Len(pagesLog)].continuation_key = None
          /\ Len(batch[1]) = Len(allTransactions)
          /\ \A k \in DOMAIN batch[1] : batch[1][k].src = allTransactions[k]

\* getTransactions has returned two transactions that came on the first and
\* on the third of three pages.
C23_Witness ==
  /\ pc[1] = "fetched"
  /\ Len(pagesLog) = 3
  /\ pagesLog[1].transactions = Some(<<1>>)
  /\ pagesLog[2].transactions = Some(<<>>)
  /\ pagesLog[3].transactions = Some(<<2>>)
  /\ allTransactions = <<1, 2>>

\* C24: a failed fetch is reported to the caller of the sync as session
\* expired exactly when the provider answered 401, 403 or that the session is
\* invalid, a transport failure is reported as a plain fetch error, and the
\* failed request is not sent again.
C24_SessionExpiredIsDistinct ==
  /\ (fetchError # None /\ report # None) =>
       /\ The(fetchError).cause \in {"auth", "sessionInvalid"}
            => The(report).kind = "sessionExpired"
       /\ The(fetchError).cause = "transport"
            => The(report).kind = "fetchError"
  /\ fetchError # None =>
       /\ pc[1] \in {"fetchFailed", "done"}
       /\ Len(requestKeys) = Len(pagesLog) + 1

\* The date the sync of task t persists to.
Persisted(t) == IF kind[t] = "runSync" THEN envLastSync ELSE lastSync[chat[t]]

\* C25: when the ledger reports errors for some records of the batch, the
\* sync still ends with its summary, the summary shows fetched, imported,
\* updated, skipped and errors, and the persisted last-sync date is the `to`
\* of its window.
C25_ImportErrorsDoNotAbort ==
  (report # None /\ importResult # None /\ The(importResult).errors > 0) =>
    /\ The(report).kind = "summary"
    /\ The(report).counts =
         Summary(Len(allTransactions), The(importResult))
    /\ {"fetched", "imported", "updated", "skipped", "errors"}
         \subseteq The(report).shown
    /\ Persisted(1) = Some(window[1][2])

C27_ZeroFetchedIsSuccess ==
  /\ []((report # None /\ fetchError = None /\ allTransactions = <<>>) =>
          /\ The(report).kind \in {"summary", "preview", "importError"}
          /\ The(report).kind = "summary" =>
               /\ The(report).counts = NoCounts
               /\ result[1] = "value"
               /\ Persisted(1) = Some(window[1][2])
          /\ The(report).kind = "preview" => dryRun[1]
          /\ The(report).kind = "importError" =>
               result[1] \in {"mkdirError", "initError", "downloadError",
                              "fnError"})
  /\ [][(pc[1] = "fetched" /\ allTransactions = <<>> /\ pc'[1] # "fetched") =>
          IF dryRun[1] THEN pc'[1] = "done" /\ result'[1] = "dryRun"
          ELSE pc'[1] = "queued"]_vars
  /\ [][(pc[1] = "import" /\ batch[1] = <<>> /\ pc'[1] # "import") =>
          /\ ledger' = ledger
          /\ outcome'[1] = "value" =>
               importResult' = Some([added |-> 0, updated |-> 0, errors |-> 0])]_vars

\* A sync that fetched one empty page has ended with the summary of zeros.
C27_Witness ==
  /\ pc[1] = "done" /\ report # None
  /\ Len(pagesLog) = 1 /\ allTransactions = <<>>
  /\ The(report).kind = "summary"
  /\ The(report).counts.fetched = 0 /\ The(report).counts.skipped = 0
  /\ imports[1] = 1

\* C28: the first response decides at once.  Without a tool call askAgent
\* ends in that step: no withActual call is made and no session is opened,
\* the question and then the text of the response are appended to the
\* history of the chat, and that text is returned; withActual is called only
\* for a response that carries a tool call.
C28_NoToolIsTerminal ==
  [][(pc[1] = "model0" /\ pc'[1] # "model0") =>
       /\ pc'[1] \in {"done", "queued"}
       /\ pc'[1] = "queued" => response'[1].toolUse
       /\ (pc'[1] = "done" /\ returned' # None) =>
            /\ callOrder' = callOrder /\ mutex' = mutex
            /\ inits'[1] = 0 /\ fnRuns'[1] = 0 /\ modelCalls[1] = 1
            /\ The(returned') = (IF lastText'[1] = None THEN <<"a", 1, "">>
                                 ELSE The(lastText'[1]))
            /\ history'[chat[1]] =
                 LastEntries(
                   history[chat[1]] \o
                     <<[role |-> "user", content |-> <<"q", 1>>],
                       [role |-> "assistant", content |-> The(returned')]>>,
                   20)
       /\ (pc'[1] = "done" /\ returned' = None) => history' = history]_vars

\* A first response without tool call has been answered: its text was
\* returned and is the last entry of the history, and no session was opened.
C28_Witness ==
  /\ pc[1] = "done" /\ returned = Some(<<"a", 1, "text">>)
  /\ lastText[1] = returned
  /\ Len(history["c1"]) = 2
  /\ history["c1"][1].role = "user"
  /\ history["c1"][2].content = <<"a", 1, "text">>
  /\ mutex = 0 /\ callOrder = <<>>

\* Positions at which fn(api) has been called and has not settled.
InFn == {"query", "tools", "model", "import"}

\* C29 as stated: api.downloadBudget is called only when api.init succeeded,
\* fn only when api.downloadBudget succeeded, and api.shutdown only when fn
\* has run and settled.
C29_ShutdownOnlyAfterFn ==
  [][\A t \in Tasks :
       /\ (pc'[t] = "download" /\ pc[t] # "download") => pc[t] = "init"
       /\ fnRuns'[t] > fnRuns[t] => pc[t] = "download"
       /\ shutdowns'[t] > shutdowns[t] =>
            (fnRuns'[t] = 1 /\ outcome'[t] \in {"value", "fnError"})]_vars

\* C29 amended: within one withActual call api.init, api.downloadBudget, fn
\* and api.shutdown are each called at most once and in that order;
\* downloadBudget is called only in the step in which init succeeded, fn only
\* in the step in which downloadBudget succeeded, and shutdown is called
\* either when fn has settled or when init or downloadBudget failed, in
\* which case fn is never called; shutdown is never called while fn runs.
C29_LifecycleOrder ==
  /\ [](\A t \in Tasks :
         /\ inits[t] <= 1 /\ fnRuns[t] <= inits[t] /\ shutdowns[t] <= inits[t]
         /\ pc[t] \in {"init", "download"} =>
              (inits[t] = 1 /\ fnRuns[t] = 0 /\ shutdowns[t] = 0)
         /\ pc[t] \in InFn =>
              (inits[t] = 1 /\ fnRuns[t] = 1 /\ shutdowns[t] = 0)
         /\ pc[t] = "shutdown" => (inits[t] = 1 /\ shutdowns[t] = 1))
  /\ [][\A t \in Tasks :
         /\ (pc'[t] = "download" /\ pc[t] # "download") => pc[t] = "init"
         /\ fnRuns'[t] > fnRuns[t] => pc[t] = "download"
         /\ shutdowns'[t] > shutdowns[t] =>
              \/ /\ pc[t] \in InFn \cup {"download"}
                 /\ fnRuns'[t] = 1 /\ outcome'[t] \in {"value", "fnError"}
              \/ /\ pc[t] = "init"
                 /\ fnRuns'[t] = 0 /\ outcome'[t] = "initError"
              \/ /\ pc[t] = "download"
                 /\ fnRuns'[t] = 0 /\ outcome'[t] = "downloadError"]_vars

\* One block went through all four steps and is closing after fn returned,
\* while another block is closing after api.init failed, its fn never called.
C29_Witness ==
  \E t, u \in Tasks :
    /\ pc[t] = "shutdown" /\ inits[t] = 1 /\ fnRuns[t] = 1
    /\ outcome[t] = "value"
    /\ Settled(u) /\ result[u] = "initError" /\ fnRuns[u] = 0
    /\ shutdowns[u] = 1

NameForIndicator(tx) ==
  IF tx.credit_debit_indicator = "CRDT" THEN tx.creditor
  ELSE IF tx.credit_debit_indicator = "DBIT" THEN tx.debtor
  ELSE None

\* C31: the payee of a mapped transaction is the creditor name on a credit
\* and the debtor name on a debit; when that name is missing or there is no
\* indicator it is the first remittance line, and empty when there is none.
C31_PayeeChoice ==
  mappedTx # None =>
    LET tx == The(rawTx)
        wanted == NameForIndicator(tx)
    IN The(mappedTx).payee_name =
         (IF wanted # None THEN wanted
          ELSE IF tx.remittance_information # <<>>
               THEN Some(Head(tx.remittance_information))
          ELSE None)

\* A debit without debtor name, whose creditor name is present, has been
\* mapped to the first of its two remittance lines.
C31_Witness ==
  /\ mappedTx # None /\ rawTx # None
  /\ The(rawTx).credit_debit_indicator = "DBIT"
  /\ The(rawTx).debtor = None /\ The(rawTx).creditor = Some("Cred")
  /\ The(rawTx).remittance_information = <<"r1", "r2">>
  /\ The(mappedTx).payee_name = Some("r1")

\* The messages pushed in round k of the question of task t, given the
\* length the list had when the question was asked.
AssistantTurn(t, base, k) == messages[t][base + 2 * k - 1]
ResultTurn(t, base, k) == messages[t][base + 2 * k]

\* C32: when the model is invoked again in a tool round, the message list
\* holds, after the history and the question, exactly two messages for every
\* round so far: the assistant turn with the whole content of the response
\* and its tool calls, then a user turn with one tool result per call, in
\* the order of the calls, each carrying the id of its call.
C32_TwoMessagesPerRound ==
  \A t \in Tasks :
    (kind[t] = "ask" /\ pc[t] = "model") =>
      LET base == Len(history[chat[t]]) + 1
      IN /\ rounds[t] >= 1
         /\ Len(messages[t]) = base + 2 * rounds[t]
         /\ messages[t][base] = [role |-> "user", content |-> <<"q", t>>]
         /\ \A k \in 1..rounds[t] :
              LET calls == AssistantTurn(t, base, k).content.tool_use
                  results == ResultTurn(t, base, k).content
              IN /\ AssistantTurn(t, base, k).role = "assistant"
                 /\ ResultTurn(t, base, k).role = "user"
                 /\ calls # <<>>
                 /\ Len(results) = Len(calls)
                 /\ \A i \in 1..Len(calls) :
                      /\ results[i].type = "tool_result"
                      /\ results[i].tool_use_id = calls[i].id
         /\ AssistantTurn(t, base, rounds[t]).content =
              Content(response[t], toolUseBlocks[t])

\* The model is being invoked after the second round of a follow-up
\* question; the first round had two calls, the second of them to a tool
\* that does not exist.
C32_Witness ==
  /\ kind[1] = "ask" /\ pc[1] = "model" /\ rounds[1] = 2
  /\ Len(history["c1"]) = 2 /\ Len(messages[1]) = 7
  /\ Len(messages[1][4].content.tool_use) = 2
  /\ messages[1][4].content.tool_use[2].name = "no_such_tool"
  /\ messages[1][5].content[2].tool_use_id = <<"toolu", 1, 2>>
  /\ messages[1][5].content[2].content = "error: Unknown tool"

\* C33: with questions of the same and of different chats in flight at once,
\* the history of every chat has even length at every await, alternates
\* user and assistant starting with user, and every question is directly
\* followed by the answer to that same question.
C33_PairsNeverInterleave ==
  \A c \in Chats :
    /\ Len(history[c]) % 2 = 0
    /\ \A i \in 1..Len(history[c]) :
         IF i % 2 = 1
         THEN /\ history[c][i].role = "user"
              /\ history[c][i].content[1] = "q"
         ELSE /\ history[c][i].role = "assistant"
              /\ history[c][i].content[1] = "a"
              /\ history[c][i].content[2] = history[c][i - 1].content[2]

\* Two questions of one chat were in flight together and the later one was
\* answered first: the history holds its pair, then the pair of the earlier.
C33_Witness ==
  /\ Len(history["c1"]) = 4
  /\ history["c1"][1].content = <<"q", 2>>
  /\ history["c1"][3].content = <<"q", 1>>
  /\ history["c1"][4].content = <<"a", 1, "text">>

\* C34: no step adds to the history of a chat a turn of a question that was
\* asked before the last clearHistory of that chat, also when the question
\* was in flight at the time of the clear.
C34_ClearedQuestionsStayOut ==
  [][\A t \in Tasks :
       (kind[t] = "ask" /\ clearedSince[t]) =>
         history'[chat[t]] \in {history[chat[t]], <<>>}]_vars

\* C35: every append of a question/answer pair and every clear changes the
\* history of one chat only: the histories of all other chats are as before.
C35_HistoryPerChat ==
  [][\A c \in Chats :
       (history'[c] # history[c] \/ appended'[c] # appended[c]) =>
         \A d \in Chats \ {c} :
           history'[d] = history[d] /\ appended'[d] = appended[d]]_vars

\* One chat has appended pairs up to the cap and beyond while the other
\* chat still holds its single pair.
C35_Witness ==
  /\ appended["c1"] = 12 /\ Len(history["c1"]) = 20
  /\ appended["c2"] = 1
  /\ history["c2"] = <<[role |-> "user", content |-> Question(1)],
                        [role |-> "assistant", content |-> Answer(1)]>>


\* Positions at which a call on the process-wide ledger client that connects,
\* loads or closes it is in flight.
ClientCalls == {"init", "download", "shutdown", "vinit", "vdownload", "vshutdown"}

\* C36: during the whole execution of fn inside withActual the process-wide
\* ledger client is the one this caller initialized, and no init,
\* downloadBudget or shutdown of another caller or code path is under way.
C36_ClientIsTheCallers ==
  \A t \in Tasks :
    pc[t] \in InFn =>
      /\ clientOwner = t
      /\ \A u \in Tasks \ {t} : pc[u] \notin ClientCalls

\* validateConnection has settled and step 5 awaits the reply that follows.
ValidateSettled(t) == kind[t] = "wizard" /\ pc[t] \in {"reply_6", "reply_failed"}

\* C39: (a) the users row of a chat changes only to the values for which
\* validateConnection has just returned true; (b) a chat without a users row
\* is at one of the configuration steps only if it consumed an invite code;
\* (c) the handler of a failed validation ends with the entered data
\* dropped, the cursor at the server-URL step and the users rows as before.
C39_SaveOnlyValidated ==
  /\ [][\A c \in Chats :
          users'[c] # users[c] =>
            \E t \in Tasks :
              /\ chat[t] = c /\ pc[t] = "vshutdown" /\ outcome[t] = "value"
              /\ result'[t] = "value"
              /\ users'[c] = validated[t]]_vars
  /\ [](\A c \in Chats :
          (users[c] = None /\ wizStep[c] \in 2..5) =>
            \E k \in Codes : invites[k] = Some(c))
  /\ [][\A t \in Tasks :
          (pc[t] = "reply_failed" /\ pc'[t] = "done") =>
            /\ wizData'[chat[t]] = EmptyData
            /\ wizStep'[chat[t]] = 2
            /\ users' = users]_vars

\* C40: whenever validateConnection has returned or thrown after api.init
\* succeeded, it has called api.shutdown exactly once.
C40_ShutdownExactlyOnce ==
  \A t \in Tasks :
    (ValidateSettled(t) /\ outcome[t] # "initError") => shutdowns[t] = 1


\* C38: of the useInviteCode calls for one code by different chats at most
\* one returns true, and used_by of a code, once set, is never overwritten.
C38_InviteConsumedOnce ==
  /\ [](\A t, u \in Tasks :
          (/\ t # u /\ chat[t] # chat[u] /\ entered[t] = entered[u]
           /\ inviteResult[t] = Some(TRUE))
          => inviteResult[u] # Some(TRUE))
  /\ [][\A k \in Codes : invites[k] # None => invites'[k] = invites[k]]_vars


\* The windows of the syncs of budget b that succeeded, and what they cover.
Synced(b) == windowsLog[b].done
CoveredBySynced(b, d) == \E w \in Synced(b) : w[1] <= d /\ d <= w[2]
LatestTo(b) == CHOOSE d \in {w[2] : w \in Synced(b)} : \A w \in Synced(b) : w[2] <= d
EarliestFrom(b) ==
  CHOOSE d \in {w[1] : w \in Synced(b)} : \A w \in Synced(b) : d <= w[1]
\* The step in which the /sync handler of task t computes its window.
WindowComputed(t) == kind[t] = "sync" /\ pc[t] = "typing" /\ pc'[t] = "fetch"

\* C37 as stated: the `from` of each sync is the `to` of the most recent
\* earlier successful sync of the tenant (today minus 90 days when there is
\* none), and every date from the `from` of the tenant's first window up to
\* the latest successful `to` lies in the window of a successful sync.
C37_NoGapFromFirstWindow ==
  /\ [][\A t \in Tasks :
          WindowComputed(t) =>
            window'[t][1] = IF lastSync[chat[t]] # None
                            THEN The(lastSync[chat[t]])
                            ELSE today - WindowDays]_vars
  /\ [](\A b \in Budgets :
          (windowsLog[b].first # None /\ Synced(b) # {}) =>
            \A d \in The(windowsLog[b].first)..LatestTo(b) : CoveredBySynced(b, d))

\* C37 amended: the `from` of each sync is the `to` of an earlier successful
\* sync of the tenant, or today minus 90 days when the sync read no saved
\* date; and every date from the earliest `from` of a successful sync up to
\* the latest successful `to` lies in the window of a successful sync.
C37_NoGapAmongSynced ==
  /\ [][\A t \in Tasks :
          WindowComputed(t) =>
            \/ window'[t][1] \in {w[2] : w \in Synced(chat[t])}
            \/ userSnap[t] = None /\ window'[t][1] = today - WindowDays]_vars
  /\ [](\A b \in Budgets :
          Synced(b) # {} =>
            \A d \in EarliestFrom(b)..LatestTo(b) : CoveredBySynced(b, d))

\* A sync that failed was the first of the chat, and a later successful sync
\* began where an earlier successful one, of an earlier day, had ended.
C37_Witness ==
  \E b \in Budgets :
    /\ windowsLog[b].first # None
    /\ \E w, x \in Synced(b) : w[1] = x[2] /\ x[2] < w[2]

====
